---- MODULE Spec2Model ----
(***************************************************************************)
(* Model of the analytics core of the sports-betting system:               *)
(*   core/analysis/ev_calculator.py  (class EVCalculator)                  *)
(*   core/processing/data_processor.py  (class DataProcessor)              *)
(*                                                                         *)
(* Numbers.  Python floats are modelled by the rational number they        *)
(* approximate, <<num, den>> in lowest terms, together with a flag `ex`    *)
(* telling whether the double is known to equal that rational exactly.     *)
(* A double is exact when it is computed from exact operands and the       *)
(* rational result is dyadic (IEEE-754 arithmetic is correctly rounded);   *)
(* otherwise it lies within rounding error of the rational, on either      *)
(* side.  Wherever the code takes a discrete decision on a float (int(),   *)
(* <, >=, sort order) and an inexact value sits exactly on the threshold,  *)
(* the outcome is not determined at this level of abstraction: it is       *)
(* resolved by the rounding outcome `rd` in {-1, 0, 1}, the sign of        *)
(* (double - rational), which every call draws nondeterministically.       *)
(* A call that compares several computed doubles (the scans) draws one     *)
(* outcome per computation: `rd` is then a function from the inputs of a   *)
(* computation to the place of its double among the doubles of the same    *)
(* real value (0 is the correctly rounded one), so that different          *)
(* computations round independently, the same computation always rounds    *)
(* the same way, and every order of the computed doubles can occur.        *)
(***************************************************************************)
EXTENDS Integers, Sequences, FiniteSets, TLC

VARIABLES op, args, result, raised, odds_data, added, raw_data, df

vars == <<op, args, result, raised, odds_data, added, raw_data, df>>

(***************************************************************************)
(* Bounds of the model.                                                    *)
(***************************************************************************)
\* American odds range over -MaxOdds .. MaxOdds (0 included: invalid odds).
MaxOdds == 220
\* Probabilities range over the fractions n/d with 0 <= n <= d <= MaxPDen.
MaxPDen == 10

(***************************************************************************)
(* Rational arithmetic.                                                    *)
(***************************************************************************)
Abs(i) == IF i < 0 THEN -i ELSE i

RECURSIVE GCD(_, _)
GCD(a, b) == IF b = 0 THEN a ELSE GCD(b, a % b)

\* n/d in lowest terms with a positive denominator (d # 0).
Norm(n, d) ==
    LET g == GCD(Abs(n), Abs(d))
        s == IF d < 0 THEN -1 ELSE 1
    IN  <<(s * n) \div g, (s * d) \div g>>

RInt(i) == <<i, 1>>

RAdd(x, y) == Norm(x[1] * y[2] + y[1] * x[2], x[2] * y[2])

RSub(x, y) == Norm(x[1] * y[2] - y[1] * x[2], x[2] * y[2])

\* Cross-cancel before multiplying so intermediate products stay small.
RMul(x, y) ==
    LET a == Norm(x[1], y[2])
        b == Norm(y[1], x[2])
    IN  <<a[1] * b[1], a[2] * b[2]>>

RDiv(x, y) == RMul(x, Norm(y[2], y[1]))

RLt(x, y) == x[1] * y[2] < y[1] * x[2]

RLe(x, y) == x[1] * y[2] <= y[1] * x[2]

RECURSIVE IsPow2(_)
IsPow2(n) == IF n = 1 THEN TRUE ELSE IF n % 2 = 1 THEN FALSE ELSE IsPow2(n \div 2)

\* A rational is representable as a double (at the magnitudes of the model)
\* exactly when its reduced denominator is a power of two.
Dyadic(r) == IsPow2(r[2])

(***************************************************************************)
(* Floats: [v |-> rational, ex |-> the double equals v exactly].           *)
(***************************************************************************)
Rounding == {-1, 0, 1}

\* The places of the doubles of a set of computations around the correctly
\* rounded double of their rational: 0 is that double itself, a negative
\* place is below it, and of two computations the one at the higher place
\* has the greater double.  Only the order of the places has a meaning, not
\* their distance (the doubles may lie any number of doubles apart); with n
\* computations, n places on each side give every order n doubles can have.
Places(computations) == -Cardinality(computations) .. Cardinality(computations)

Fl(r, exact_operands) == [v |-> r, ex |-> exact_operands /\ Dyadic(r)]

\* A float literal or argument whose decimal value is r: the nearest double.
FloatOf(r) == Fl(r, TRUE)

FInt(i) == FloatOf(RInt(i))

FAdd(x, y) == Fl(RAdd(x.v, y.v), x.ex /\ y.ex)

FSub(x, y) == Fl(RSub(x.v, y.v), x.ex /\ y.ex)

FMul(x, y) == Fl(RMul(x.v, y.v), x.ex /\ y.ex)

FDiv(x, y) == Fl(RDiv(x.v, y.v), x.ex /\ y.ex)

\* Sign of (double x - double y): decided by the rationals unless they tie and
\* one of the doubles is inexact, where the rounding outcome rd decides.
FCmp(x, y, rd) ==
    IF x.v # y.v THEN (IF RLt(x.v, y.v) THEN -1 ELSE 1)
    ELSE IF x.ex /\ y.ex THEN 0
    ELSE rd

FLt(x, y, rd) == FCmp(x, y, rd) < 0

FGe(x, y, rd) == FCmp(x, y, rd) >= 0

\* Python int(x): truncation toward zero.  An inexact double whose rational is
\* a non-zero integer n may lie just inside n (rd points toward zero), and
\* then truncates to the neighbour of n nearer zero.
FTrunc(x, rd) ==
    LET n == x.v[1]
        d == x.v[2]
        t == IF n >= 0 THEN n \div d ELSE -((-n) \div d)
        sgn == IF n < 0 THEN -1 ELSE IF n > 0 THEN 1 ELSE 0
    IN  IF d = 1 /\ ~x.ex /\ n # 0 /\ rd = -sgn THEN n - sgn ELSE t

\* min(a, b) and max(a, b) of Python: a unless b compares smaller (larger);
\* on a tie both candidates have the same rational value.
FMin(x, y) == IF RLt(y.v, x.v) THEN y ELSE x

FMax(x, y) == IF RLt(x.v, y.v) THEN y ELSE x

(***************************************************************************)
(* Odds model (EVCalculator.american_to_decimal, decimal_to_american,      *)
(* implied_probability).  american_odds is an int.                         *)
(***************************************************************************)
\* 100 / abs(0) raises ZeroDivisionError.
american_to_decimal_raises(american_odds) == american_odds = 0

\* Mutant: the negative branch inverted (abs(odds) / 100 instead of 100 / abs(odds)).
american_to_decimal_inverted(american_odds) ==
    IF american_odds > 0
    THEN FAdd(FDiv(FInt(american_odds), FInt(100)), FInt(1))
    ELSE FAdd(FDiv(FInt(Abs(american_odds)), FInt(100)), FInt(1))

american_to_decimal(american_odds) ==
    IF american_odds > 0
    THEN FAdd(FDiv(FInt(american_odds), FInt(100)), FInt(1))
    ELSE FAdd(FDiv(FInt(100), FInt(Abs(american_odds))), FInt(1))

\* -100 / (decimal_odds - 1) raises ZeroDivisionError at decimal_odds = 1.0.
decimal_to_american_raises(decimal_odds, rd) ==
    /\ ~FGe(decimal_odds, FInt(2), rd)
    /\ FSub(decimal_odds, FInt(1)).v[1] = 0

\* Mutant: the branch test written > 2.0 instead of >= 2.0.
decimal_to_american_strict(decimal_odds, rd) ==
    IF FCmp(decimal_odds, FInt(2), rd) > 0
    THEN FTrunc(FMul(FSub(decimal_odds, FInt(1)), FInt(100)), rd)
    ELSE FTrunc(FDiv(FInt(-100), FSub(decimal_odds, FInt(1))), rd)

decimal_to_american(decimal_odds, rd) ==
    IF FGe(decimal_odds, FInt(2), rd)
    THEN FTrunc(FMul(FSub(decimal_odds, FInt(1)), FInt(100)), rd)
    ELSE FTrunc(FDiv(FInt(-100), FSub(decimal_odds, FInt(1))), rd)

implied_probability_raises(american_odds) == american_to_decimal_raises(american_odds)

\* Mutant: the probability of the other side, 1 - 1 / decimal_odds.
implied_probability_complement(american_odds) ==
    LET decimal_odds == american_to_decimal(american_odds)
    IN  FSub(FInt(1), FDiv(FInt(1), decimal_odds))

implied_probability(american_odds) ==
    LET decimal_odds == american_to_decimal(american_odds)
    IN  FDiv(FInt(1), decimal_odds)

(***************************************************************************)
(* EV engine: expected value, percentage EV, Kelly stake.                  *)
(* predicted_probability, bet_amount and bankroll are floats; odds an int. *)
(***************************************************************************)
\* try: ... except Exception: return 0.0  (the only failure on numeric
\* arguments is the ZeroDivisionError of american_to_decimal(0)).
\* Mutant: the profit taken as the gross payout (decimal_odds not reduced by 1).
calculate_expected_value_gross(predicted_probability, odds, bet_amount) ==
    IF american_to_decimal_raises(odds) THEN FInt(0)
    ELSE LET decimal_odds == american_to_decimal(odds)
             potential_profit == FMul(bet_amount, decimal_odds)
             ev == FSub(FMul(predicted_probability, potential_profit),
                        FMul(FSub(FInt(1), predicted_probability), bet_amount))
         IN  ev

\* Mutant: the loss term weighted by half the stake.
calculate_expected_value_halfloss(predicted_probability, odds, bet_amount) ==
    IF american_to_decimal_raises(odds) THEN FInt(0)
    ELSE LET decimal_odds == american_to_decimal(odds)
             potential_profit == FMul(bet_amount, FSub(decimal_odds, FInt(1)))
             ev == FSub(FMul(predicted_probability, potential_profit),
                        FMul(FMul(FSub(FInt(1), predicted_probability), bet_amount),
                             FloatOf(<<1, 2>>)))
         IN  ev

\* Mutant: the call without its try/except (the exception of odds 0 is not
\* turned into 0.0, so the call yields no value).
calculate_expected_value_unguarded(predicted_probability, odds, bet_amount) ==
    IF american_to_decimal_raises(odds) THEN <<>>
    ELSE LET decimal_odds == american_to_decimal(odds)
             potential_profit == FMul(bet_amount, FSub(decimal_odds, FInt(1)))
             ev == FSub(FMul(predicted_probability, potential_profit),
                        FMul(FSub(FInt(1), predicted_probability), bet_amount))
         IN  ev

\* Mutant: the probabilities of winning and of losing exchanged.
calculate_expected_value_swapped(predicted_probability, odds, bet_amount) ==
    IF american_to_decimal_raises(odds) THEN FInt(0)
    ELSE LET decimal_odds == american_to_decimal(odds)
             potential_profit == FMul(bet_amount, FSub(decimal_odds, FInt(1)))
             ev == FSub(FMul(FSub(FInt(1), predicted_probability), potential_profit),
                        FMul(predicted_probability, bet_amount))
         IN  ev

calculate_expected_value(predicted_probability, odds, bet_amount) ==
    IF american_to_decimal_raises(odds) THEN FInt(0)
    ELSE LET decimal_odds == american_to_decimal(odds)
             potential_profit == FMul(bet_amount, FSub(decimal_odds, FInt(1)))
             ev == FSub(FMul(predicted_probability, potential_profit),
                        FMul(FSub(FInt(1), predicted_probability), bet_amount))
         IN  ev

calculate_ev_percentage(predicted_probability, odds) ==
    LET ev_dollar == calculate_expected_value(predicted_probability, odds, FInt(100))
    IN  ev_dollar

\* The literal 0.25 of the cap.
KellyCap == FloatOf(<<1, 4>>)

\* Mutant: the 25% cap left out.
calculate_kelly_criterion_uncapped(predicted_probability, odds, bankroll) ==
    IF american_to_decimal_raises(odds) THEN FInt(0)
    ELSE LET decimal_odds == american_to_decimal(odds)
             b == FSub(decimal_odds, FInt(1))
             p == predicted_probability
             q == FSub(FInt(1), p)
             kelly_fraction == FDiv(FSub(FMul(b, p), q), b)
             floored == FMax(kelly_fraction, FInt(0))
             recommended_bet == FMul(bankroll, floored)
         IN  recommended_bet

\* Mutant: the floor max(0, ...) left out.
calculate_kelly_criterion_unfloored(predicted_probability, odds, bankroll) ==
    IF american_to_decimal_raises(odds) THEN FInt(0)
    ELSE LET decimal_odds == american_to_decimal(odds)
             b == FSub(decimal_odds, FInt(1))
             p == predicted_probability
             q == FSub(FInt(1), p)
             kelly_fraction == FDiv(FSub(FMul(b, p), q), b)
             capped == FMin(kelly_fraction, KellyCap)
             recommended_bet == FMul(bankroll, capped)
         IN  recommended_bet

calculate_kelly_criterion(predicted_probability, odds, bankroll) ==
    IF american_to_decimal_raises(odds) THEN FInt(0)
    ELSE LET decimal_odds == american_to_decimal(odds)
             b == FSub(decimal_odds, FInt(1))
             p == predicted_probability
             q == FSub(FInt(1), p)
             kelly_fraction == FDiv(FSub(FMul(b, p), q), b)
             capped == FMin(kelly_fraction, KellyCap)
             floored == FMax(capped, FInt(0))
             recommended_bet == FMul(bankroll, floored)
         IN  recommended_bet

(***************************************************************************)
(* Inputs of the numeric calls.                                            *)
(***************************************************************************)
OddsValues == (-MaxOdds) .. MaxOdds

Probabilities == {Norm(n, d) : n \in 0 .. MaxPDen, d \in 1 .. MaxPDen} \cap
                 {r \in (0 .. MaxPDen) \X (1 .. MaxPDen) : r[1] <= r[2]}

\* Stakes and bankrolls (dollars).
Amounts == {0, 1, 100, 1000}

\* Decimal odds given to decimal_to_american: hundredths from 1.00 upward.
MaxDecimalHundredths == 320

DecimalValues == {Norm(k, 100) : k \in 100 .. MaxDecimalHundredths}

NoResult == <<>>

\* pd.DataFrame(): the table without columns and rows.
EmptyFrame == [columns |-> {}, rows |-> <<>>]

(***************************************************************************)
(* The calls, one action each: the arguments are drawn from the input      *)
(* sets, the function is applied, and the call is recorded in              *)
(* op / args / result (raised: an exception escaped to the caller).        *)
(* Each behaviour is one call on a fresh EVCalculator (it holds no state). *)
(***************************************************************************)
Init ==
    /\ op = "none"
    /\ args = <<>>
    /\ result = NoResult
    /\ raised = FALSE
    /\ odds_data = <<>>
    /\ added = 0
    /\ raw_data = <<>>
    /\ df = EmptyFrame

\* One input is put together at a time: the odds feed, or the raw events or
\* the rows of a table.
NoFeed == odds_data = <<>> /\ added = 0

NoTable == raw_data = <<>> /\ df = EmptyFrame

CallAmericanToDecimal ==
    /\ op = "none"
    /\ NoFeed
    /\ NoTable
    /\ UNCHANGED <<odds_data, added, raw_data, df>>
    /\  \E a \in OddsValues :
        /\ op' = "american_to_decimal"
        /\ args' = [odds |-> a]
        /\ raised' = american_to_decimal_raises(a)
        /\ result' = IF american_to_decimal_raises(a) THEN NoResult
                     ELSE american_to_decimal(a)

CallDecimalToAmerican ==
    /\ op = "none"
    /\ NoFeed
    /\ NoTable
    /\ UNCHANGED <<odds_data, added, raw_data, df>>
    /\  \E d \in DecimalValues, rd \in Rounding :
        /\ op' = "decimal_to_american"
        /\ args' = [decimal_odds |-> d, rd |-> rd]
        /\ raised' = decimal_to_american_raises(FloatOf(d), rd)
        /\ result' = IF decimal_to_american_raises(FloatOf(d), rd) THEN NoResult
                     ELSE decimal_to_american(FloatOf(d), rd)

CallImpliedProbability ==
    /\ op = "none"
    /\ NoFeed
    /\ NoTable
    /\ UNCHANGED <<odds_data, added, raw_data, df>>
    /\  \E a \in OddsValues :
        /\ op' = "implied_probability"
        /\ args' = [odds |-> a]
        /\ raised' = implied_probability_raises(a)
        /\ result' = IF implied_probability_raises(a) THEN NoResult
                     ELSE implied_probability(a)

\* decimal_to_american(american_to_decimal(a)): the round trip of the odds model.
CallRoundTrip ==
    /\ op = "none"
    /\ NoFeed
    /\ NoTable
    /\ UNCHANGED <<odds_data, added, raw_data, df>>
    /\  \E a \in OddsValues \ {0}, rd \in Rounding :
        /\ op' = "round_trip"
        /\ args' = [odds |-> a, rd |-> rd]
        /\ raised' = decimal_to_american_raises(american_to_decimal(a), rd)
        /\ result' = IF decimal_to_american_raises(american_to_decimal(a), rd)
                     THEN NoResult
                     ELSE decimal_to_american(american_to_decimal(a), rd)

CallExpectedValue ==
    /\ op = "none"
    /\ NoFeed
    /\ NoTable
    /\ UNCHANGED <<odds_data, added, raw_data, df>>
    /\  \E p \in Probabilities, a \in OddsValues, s \in Amounts :
        /\ op' = "calculate_expected_value"
        /\ args' = [p |-> p, odds |-> a, amount |-> s]
        /\ raised' = FALSE
        /\ result' = calculate_expected_value(FloatOf(p), a, FInt(s))

CallEvPercentage ==
    /\ op = "none"
    /\ NoFeed
    /\ NoTable
    /\ UNCHANGED <<odds_data, added, raw_data, df>>
    /\  \E p \in Probabilities, a \in OddsValues :
        /\ op' = "calculate_ev_percentage"
        /\ args' = [p |-> p, odds |-> a]
        /\ raised' = FALSE
        /\ result' = calculate_ev_percentage(FloatOf(p), a)

CallKelly ==
    /\ op = "none"
    /\ NoFeed
    /\ NoTable
    /\ UNCHANGED <<odds_data, added, raw_data, df>>
    /\  \E p \in Probabilities, a \in OddsValues, s \in Amounts :
        /\ op' = "calculate_kelly_criterion"
        /\ args' = [p |-> p, odds |-> a, amount |-> s]
        /\ raised' = FALSE
        /\ result' = calculate_kelly_criterion(FloatOf(p), a, FInt(s))

Next ==
    \/ CallAmericanToDecimal
    \/ CallDecimalToAmerican
    \/ CallImpliedProbability
    \/ CallRoundTrip
    \/ CallExpectedValue
    \/ CallEvPercentage
    \/ CallKelly

Spec == Init /\ [][Next]_vars

(***************************************************************************)
(* The odds feed and the predictions (the inputs of the two scans).        *)
(*                                                                         *)
(* A Python dict whose keys are fixed strings is a record; a missing key   *)
(* is a field absent from its DOMAIN, read through Get (dict.get).  A      *)
(* value that is not a mapping (None, a string, ...) has no .get: reading  *)
(* it raises AttributeError.  A dict that is iterated (a prediction, the   *)
(* best_odds table) is a sequence of <<key, value>> in insertion order.    *)
(***************************************************************************)
NotAMapping == [not_a_mapping |-> TRUE]

IsMapping(x) == "not_a_mapping" \notin DOMAIN x

Get(d, key, default) == IF key \in DOMAIN d THEN d[key] ELSE default

\* dict.get on an insertion-ordered dict: the value of the (unique) key.
RECURSIVE ItemsGet(_, _, _)
ItemsGet(items, key, default) ==
    IF items = <<>> THEN default
    ELSE IF Head(items)[1] = key THEN Head(items)[2]
    ELSE ItemsGet(Tail(items), key, default)

\* The characters of s.lower(), for the strings of the model.
Lower(s) ==
    CASE s = "" -> <<>>
      [] s = "A" -> <<"a">>
      [] s = "B" -> <<"b">>
      [] s = "probability" -> <<"p", "r", "o", "b", "a", "b", "i", "l", "i", "t", "y">>
      [] s = "home_team" -> <<"h", "o", "m", "e", "_", "t", "e", "a", "m">>
      [] s = "away_team" -> <<"a", "w", "a", "y", "_", "t", "e", "a", "m">>
      [] s = "home_win_probability" ->
            <<"h", "o", "m", "e", "_", "w", "i", "n", "_",
              "p", "r", "o", "b", "a", "b", "i", "l", "i", "t", "y">>
      [] s = "away_win_probability" ->
            <<"a", "w", "a", "y", "_", "w", "i", "n", "_",
              "p", "r", "o", "b", "a", "b", "i", "l", "i", "t", "y">>

\* Python's `needle in hay` on strings (substring test).
Contains(needle, hay) ==
    \E i \in 0 .. (Len(hay) - Len(needle)) :
        SubSeq(hay, i + 1, i + Len(needle)) = needle

(***************************************************************************)
(* EVCalculator._get_team_probability                                      *)
(***************************************************************************)
\* for key, value in prediction.items(): the first key that contains the
\* lower-cased team name and "probability"; 0 when there is none.
RECURSIVE PartialMatch(_, _)
PartialMatch(items, team_name) ==
    IF items = <<>> THEN RInt(0)
    ELSE LET key == Head(items)[1]
             value == Head(items)[2]
         IN  IF /\ Contains(Lower(team_name), Lower(key))
                /\ Contains(Lower("probability"), Lower(key))
             THEN value
             ELSE PartialMatch(Tail(items), team_name)

\* Mutant: home and away probabilities exchanged.
_get_team_probability_swapped(prediction, team_name) ==
    IF ItemsGet(prediction, "home_team", "<None>") = team_name
    THEN ItemsGet(prediction, "away_win_probability", RInt(0))
    ELSE IF ItemsGet(prediction, "away_team", "<None>") = team_name
    THEN ItemsGet(prediction, "home_win_probability", RInt(0))
    ELSE PartialMatch(prediction, team_name)

_get_team_probability(prediction, team_name) ==
    IF ItemsGet(prediction, "home_team", "<None>") = team_name
    THEN ItemsGet(prediction, "home_win_probability", RInt(0))
    ELSE IF ItemsGet(prediction, "away_team", "<None>") = team_name
    THEN ItemsGet(prediction, "away_win_probability", RInt(0))
    ELSE PartialMatch(prediction, team_name)

(***************************************************************************)
(* EVCalculator.find_positive_ev_bets                                      *)
(***************************************************************************)
\* The place of the double of an expected value among the doubles of its
\* rational: 0 when exact, otherwise the rounding outcome of its
\* computation, which is determined by the probability and the odds it was
\* computed from (the stake is always 100).  min_ev is a literal: its double
\* is the correctly rounded one, at place 0.
EvPlace(ev, pred_prob, odds, rd) == IF ev.ex THEN 0 ELSE rd[<<pred_prob, odds>>]

\* ev >= min_ev on doubles.
EvAtLeast(ev, pred_prob, odds, min_ev, rd) ==
    \/ RLt(min_ev.v, ev.v)
    \/ ev.v = min_ev.v /\ EvPlace(ev, pred_prob, odds, rd) >= 0

\* The opportunities of one outcome: at most one record (lines 156-177).
\* The timestamp (datetime.now()) is left out.
OutcomeBets(game_id, game_prediction, bookmaker, outcome, min_ev, rd) ==
    LET team_name == Get(outcome, "name", "")
        odds == Get(outcome, "price", 0)
        pred_prob == _get_team_probability(game_prediction, team_name)
        ev == calculate_ev_percentage(FloatOf(pred_prob), odds)
    IN  IF RLt(RInt(0), pred_prob) /\ EvAtLeast(ev, pred_prob, odds, min_ev, rd)
        THEN << [game_id |-> game_id,
                 bookmaker |-> Get(bookmaker, "title", ""),
                 team |-> team_name,
                 odds |-> odds,
                 predicted_probability |-> pred_prob,
                 expected_value |-> ev,
                 market |-> "moneyline"] >>
        ELSE <<>>

\* for outcome in outcomes (in order).
RECURSIVE OutcomesBets(_, _, _, _, _, _)
OutcomesBets(game_id, game_prediction, bookmaker, outcomes, min_ev, rd) ==
    IF outcomes = <<>> THEN <<>>
    ELSE OutcomeBets(game_id, game_prediction, bookmaker, Head(outcomes), min_ev, rd)
         \o OutcomesBets(game_id, game_prediction, bookmaker, Tail(outcomes), min_ev, rd)

\* Mutant: every market is scanned, whatever its key.
RECURSIVE MarketsBets_every_market(_, _, _, _, _, _)
MarketsBets_every_market(game_id, game_prediction, bookmaker, markets, min_ev, rd) ==
    IF markets = <<>> THEN <<>>
    ELSE OutcomesBets(game_id, game_prediction, bookmaker,
                      Get(Head(markets), "outcomes", <<>>), min_ev, rd)
         \o MarketsBets_every_market(game_id, game_prediction, bookmaker,
                                     Tail(markets), min_ev, rd)

\* for market in markets: only the head-to-head market is scanned.
RECURSIVE MarketsBets(_, _, _, _, _, _)
MarketsBets(game_id, game_prediction, bookmaker, markets, min_ev, rd) ==
    IF markets = <<>> THEN <<>>
    ELSE (IF Get(Head(markets), "key", "<None>") = "h2h"
          THEN OutcomesBets(game_id, game_prediction, bookmaker,
                            Get(Head(markets), "outcomes", <<>>), min_ev, rd)
          ELSE <<>>)
         \o MarketsBets(game_id, game_prediction, bookmaker, Tail(markets), min_ev, rd)

\* for bookmaker in bookmakers.
RECURSIVE BookmakersBets(_, _, _, _, _)
BookmakersBets(game_id, game_prediction, bookmakers, min_ev, rd) ==
    IF bookmakers = <<>> THEN <<>>
    ELSE MarketsBets(game_id, game_prediction, Head(bookmakers),
                     Get(Head(bookmakers), "markets", <<>>), min_ev, rd)
         \o BookmakersBets(game_id, game_prediction, Tail(bookmakers), min_ev, rd)

\* for odds_entry in odds_data: entries without a prediction are skipped.
RECURSIVE EntriesBets(_, _, _, _)
EntriesBets(predictions, entries, min_ev, rd) ==
    IF entries = <<>> THEN <<>>
    ELSE LET odds_entry == Head(entries)
             game_id == Get(odds_entry, "id", "")
         IN  (IF game_id \notin DOMAIN predictions THEN <<>>
              ELSE BookmakersBets(game_id, predictions[game_id],
                                  Get(odds_entry, "bookmakers", <<>>), min_ev, rd))
             \o EntriesBets(predictions, Tail(entries), min_ev, rd)

\* Lines 139 and 272: odds_entry.get raises AttributeError on an entry that
\* is not a mapping.
EntryRaises(entries) == \E i \in 1 .. Len(entries) : ~IsMapping(entries[i])

\* Lines 148-157 and 313-322: bookmaker.get raises on a bookmaker that is
\* not a mapping, market.get on a market that is not one, and outcome.get on
\* an outcome of a head-to-head market that is not one (the outcomes of the
\* other markets are not read).
BookmakersRaise(bookmakers) ==
    LET MarketRaises(market) ==
            \/ ~IsMapping(market)
            \/ /\ Get(market, "key", "<None>") = "h2h"
               /\ \E k \in 1 .. Len(Get(market, "outcomes", <<>>)) :
                     ~IsMapping(Get(market, "outcomes", <<>>)[k])
    IN  \E b \in 1 .. Len(bookmakers) :
            \/ ~IsMapping(bookmakers[b])
            \/ \E m \in 1 .. Len(Get(bookmakers[b], "markets", <<>>)) :
                  MarketRaises(Get(bookmakers[b], "markets", <<>>)[m])

\* The scan of find_positive_ev_bets raises: at an entry that is not a
\* mapping, or inside an entry whose game has a prediction (the entries of
\* the other games are skipped at line 142).
ScanRaises(predictions, entries) ==
    \/ EntryRaises(entries)
    \/ \E i \in 1 .. Len(entries) :
          /\ Get(entries[i], "id", "") \in DOMAIN predictions
          /\ BookmakersRaise(Get(entries[i], "bookmakers", <<>>))

\* x sorts strictly before y under sort(key=expected_value, reverse=True).
\* The same computation gives the same double.
EvGreater(x, y, rd) ==
    \/ RLt(y.expected_value.v, x.expected_value.v)
    \/ /\ x.expected_value.v = y.expected_value.v
       /\ <<x.predicted_probability, x.odds>> # <<y.predicted_probability, y.odds>>
       /\ EvPlace(x.expected_value, x.predicted_probability, x.odds, rd)
             > EvPlace(y.expected_value, y.predicted_probability, y.odds, rd)

\* list.sort(reverse=True) is stable: x is placed after every element that is
\* not smaller than it, so equal elements keep their order.
\* Mutant: x is placed before the elements equal to it (an unstable sort:
\* equal elements come out in reverse order of encounter).
RECURSIVE InsertDescending_before_equals(_, _, _)
InsertDescending_before_equals(sorted, x, rd) ==
    IF sorted = <<>> THEN <<x>>
    ELSE IF ~EvGreater(Head(sorted), x, rd) THEN <<x>> \o sorted
    ELSE <<Head(sorted)>> \o InsertDescending_before_equals(Tail(sorted), x, rd)

RECURSIVE InsertDescending(_, _, _)
InsertDescending(sorted, x, rd) ==
    IF sorted = <<>> THEN <<x>>
    ELSE IF EvGreater(x, Head(sorted), rd) THEN <<x>> \o sorted
    ELSE <<Head(sorted)>> \o InsertDescending(Tail(sorted), x, rd)

RECURSIVE SortDescendingFrom(_, _, _)
SortDescendingFrom(sorted, bets, rd) ==
    IF bets = <<>> THEN sorted
    ELSE SortDescendingFrom(InsertDescending(sorted, Head(bets), rd), Tail(bets), rd)

\* positive_ev_bets.sort(key=lambda x: x["expected_value"], reverse=True)
SortDescending(bets, rd) == SortDescendingFrom(<<>>, bets, rd)

\* The computations whose rounding decides something in a call: the
\* inexact expected values that reach min_ev as rationals and equal min_ev
\* or the expected value of another computation.  (No percentage is below
\* -100, so a threshold of -101 keeps every scored outcome and consults no
\* rounding.)
EvTies(predictions, entries, min_ev) ==
    LET ties(scored) ==
            LET reaching == {i \in 1 .. Len(scored) :
                                RLe(min_ev.v, scored[i].expected_value.v)}
                key(i) == <<scored[i].predicted_probability, scored[i].odds>>
            IN  {key(i) : i \in {j \in reaching :
                    /\ ~scored[j].expected_value.ex
                    /\ \/ scored[j].expected_value.v = min_ev.v
                       \/ \E k \in reaching :
                             /\ key(k) # key(j)
                             /\ scored[k].expected_value.v = scored[j].expected_value.v}}
    IN  ties(IF ScanRaises(predictions, entries) THEN <<>>
             ELSE EntriesBets(predictions, entries, FInt(-101), <<>>))

\* The whole call: try: scan, sort, return; except Exception: return [].
find_positive_ev_bets(predictions, entries, min_ev, rd) ==
    IF ScanRaises(predictions, entries) THEN <<>>
    ELSE SortDescending(EntriesBets(predictions, entries, min_ev, rd), rd)

(***************************************************************************)
(* EVCalculator.calculate_arbitrage_opportunities and                      *)
(* EVCalculator._check_arbitrage_for_game                                  *)
(***************************************************************************)
\* Position of team among the keys of best_odds, 0 when absent.
RECURSIVE KeyIndex(_, _, _)
KeyIndex(items, key, i) ==
    IF i > Len(items) THEN 0
    ELSE IF items[i][1] = key THEN i
    ELSE KeyIndex(items, key, i + 1)

\* Mutant: a later quote that only equals the best one replaces it (>=).
BestOddsUpdate_last_wins(best_odds, bookmaker, outcome) ==
    LET team == Get(outcome, "name", "")
        odds == Get(outcome, "price", 0)
        bookmaker_name == Get(bookmaker, "title", "")
        at == KeyIndex(best_odds, team, 1)
    IN  IF at = 0 THEN Append(best_odds, <<team, <<bookmaker_name, odds>>>>)
        ELSE IF odds >= best_odds[at][2][2]
        THEN [best_odds EXCEPT ![at] = <<team, <<bookmaker_name, odds>>>>]
        ELSE best_odds

\* if team not in best_odds or odds > best_odds[team][1]:
\*     best_odds[team] = (bookmaker_name, odds)
\* (a new key is appended, an existing key keeps its position).
BestOddsUpdate(best_odds, bookmaker, outcome) ==
    LET team == Get(outcome, "name", "")
        odds == Get(outcome, "price", 0)
        bookmaker_name == Get(bookmaker, "title", "")
        at == KeyIndex(best_odds, team, 1)
    IN  IF at = 0 THEN Append(best_odds, <<team, <<bookmaker_name, odds>>>>)
        ELSE IF odds > best_odds[at][2][2]
        THEN [best_odds EXCEPT ![at] = <<team, <<bookmaker_name, odds>>>>]
        ELSE best_odds

RECURSIVE BestOddsOutcomes(_, _, _)
BestOddsOutcomes(best_odds, bookmaker, outcomes) ==
    IF outcomes = <<>> THEN best_odds
    ELSE BestOddsOutcomes(BestOddsUpdate(best_odds, bookmaker, Head(outcomes)),
                          bookmaker, Tail(outcomes))

RECURSIVE BestOddsMarkets(_, _, _)
BestOddsMarkets(best_odds, bookmaker, markets) ==
    IF markets = <<>> THEN best_odds
    ELSE BestOddsMarkets(
             IF Get(Head(markets), "key", "<None>") = "h2h"
             THEN BestOddsOutcomes(best_odds, bookmaker,
                                   Get(Head(markets), "outcomes", <<>>))
             ELSE best_odds,
             bookmaker, Tail(markets))

RECURSIVE BestOddsBookmakers(_, _)
BestOddsBookmakers(best_odds, bookmakers) ==
    IF bookmakers = <<>> THEN best_odds
    ELSE BestOddsBookmakers(
             BestOddsMarkets(best_odds, Head(bookmakers),
                             Get(Head(bookmakers), "markets", <<>>)),
             Tail(bookmakers))

\* Lines 307-326: the best odds of each team over the entries of one game.
RECURSIVE BestOddsEntries(_, _)
BestOddsEntries(best_odds, game_odds) ==
    IF game_odds = <<>> THEN best_odds
    ELSE BestOddsEntries(
             BestOddsBookmakers(best_odds, Get(Head(game_odds), "bookmakers", <<>>)),
             Tail(game_odds))

\* sum(implied_probs): 0 + p1 + p2 + ... from left to right.
RECURSIVE SumImplied(_, _)
SumImplied(total, best_odds) ==
    IF best_odds = <<>> THEN total
    ELSE SumImplied(FAdd(total, implied_probability(Head(best_odds)[2][2])),
                    Tail(best_odds))

NoOpportunity == <<>>

\* The loops of lines 310-326 raise inside one of the entries of the game.
_check_arbitrage_for_game_raises(game_odds) ==
    \E i \in 1 .. Len(game_odds) :
        BookmakersRaise(Get(game_odds[i], "bookmakers", <<>>))

\* The prices summed at lines 328-331, in the order of best_odds: the sum is
\* one computation per such sequence.
BestPrices(best_odds) == [i \in 1 .. Len(best_odds) |-> best_odds[i][2][2]]

\* The rounding outcome of the sum of one game: none when exact.
SumDev(total_implied_prob, best_odds, rd) ==
    IF total_implied_prob.ex THEN 0 ELSE rd[BestPrices(best_odds)]

\* Mutant: the arbitrage test written <= 1.0 instead of < 1.0.
_check_arbitrage_for_game_nonstrict(game_id, game_odds, rd) ==
    LET best_odds == BestOddsEntries(<<>>, game_odds)
    IN  IF _check_arbitrage_for_game_raises(game_odds) THEN NoOpportunity
        ELSE IF Len(best_odds) >= 2
        THEN IF \E i \in 1 .. Len(best_odds) :
                    implied_probability_raises(best_odds[i][2][2])
             THEN NoOpportunity
             ELSE LET total_implied_prob == SumImplied(FInt(0), best_odds)
                  IN  IF FCmp(total_implied_prob, FInt(1),
                              SumDev(total_implied_prob, best_odds, rd)) <= 0
                      THEN << [game_id |-> game_id,
                               profit_margin |->
                                   FMul(FSub(FInt(1), total_implied_prob), FInt(100)),
                               total_implied_probability |-> total_implied_prob,
                               best_odds |-> best_odds] >>
                      ELSE NoOpportunity
        ELSE NoOpportunity

\* The opportunity of one game as a list of zero or one record (None: the
\* empty list).  A record that is not a mapping raises AttributeError and
\* implied_probability(0) raises ZeroDivisionError, which the except clause
\* turns into None.  The timestamp is left out.
_check_arbitrage_for_game(game_id, game_odds, rd) ==
    LET best_odds == BestOddsEntries(<<>>, game_odds)
    IN  IF _check_arbitrage_for_game_raises(game_odds) THEN NoOpportunity
        ELSE IF Len(best_odds) >= 2
        THEN IF \E i \in 1 .. Len(best_odds) :
                    implied_probability_raises(best_odds[i][2][2])
             THEN NoOpportunity
             ELSE LET total_implied_prob == SumImplied(FInt(0), best_odds)
                  IN  IF FLt(total_implied_prob, FInt(1),
                             SumDev(total_implied_prob, best_odds, rd))
                      THEN << [game_id |-> game_id,
                               profit_margin |->
                                   FMul(FSub(FInt(1), total_implied_prob), FInt(100)),
                               total_implied_probability |-> total_implied_prob,
                               best_odds |-> best_odds] >>
                      ELSE NoOpportunity
        ELSE NoOpportunity

\* Lines 271-277: the game ids in order of first occurrence ...
RECURSIVE GameIdsOf(_, _)
GameIdsOf(seen, entries) ==
    IF entries = <<>> THEN seen
    ELSE LET game_id == Get(Head(entries), "id", "")
         IN  GameIdsOf(IF \E i \in 1 .. Len(seen) : seen[i] = game_id
                       THEN seen ELSE Append(seen, game_id),
                       Tail(entries))

\* ... and the entries of one game, in feed order.
GameOdds(entries, game_id) ==
    SelectSeq(entries, LAMBDA e : Get(e, "id", "") = game_id)

\* Lines 280-283: one check per game, the opportunities appended in order.
RECURSIVE GamesOpportunities(_, _, _)
GamesOpportunities(game_ids, entries, rd) ==
    IF game_ids = <<>> THEN <<>>
    ELSE _check_arbitrage_for_game(Head(game_ids), GameOdds(entries, Head(game_ids)), rd)
         \o GamesOpportunities(Tail(game_ids), entries, rd)

\* The sums whose rounding decides something in a call: the inexact sums
\* of the games that equal 1 as rationals.
SumTies(entries) ==
    IF EntryRaises(entries) THEN {}
    ELSE LET game_ids == GameIdsOf(<<>>, entries)
             best(i) == BestOddsEntries(<<>>, GameOdds(entries, game_ids[i]))
         IN  {BestPrices(best(i)) : i \in {j \in 1 .. Len(game_ids) :
                 /\ ~_check_arbitrage_for_game_raises(GameOdds(entries, game_ids[j]))
                 /\ Len(best(j)) >= 2
                 /\ \A k \in 1 .. Len(best(j)) :
                       ~implied_probability_raises(best(j)[k][2][2])
                 /\ ~SumImplied(FInt(0), best(j)).ex
                 /\ SumImplied(FInt(0), best(j)).v = RInt(1)}}

\* The whole call: try: group, check each game; except Exception: return [].
calculate_arbitrage_opportunities(entries, rd) ==
    IF EntryRaises(entries) THEN <<>>
    ELSE GamesOpportunities(GameIdsOf(<<>>, entries), entries, rd)

(***************************************************************************)
(* The scans as a state machine (specification SpecScan): an odds feed is  *)
(* put together record by record, then one of the two scans is called on   *)
(* it.                                                                     *)
(***************************************************************************)
\* At most MaxExtraQuotes records are appended to the initial feed.
MaxExtraQuotes == 2

GameIds == {"g1", "g2"}

Teams == {"A", "B"}

Prices == {-150, 150}

\* Well-formed outcomes (A at -110 among them), an outcome without a price,
\* one without a name and one that is not a mapping.
OutcomePool ==
    {[name |-> n, price |-> p] : n \in Teams, p \in Prices}
        \cup {[name |-> "A", price |-> -110]}
        \cup {[name |-> "B"], [price |-> 150]}
        \cup {NotAMapping}

H2H(outcomes) == [key |-> "h2h", outcomes |-> outcomes]

\* One game quoted by two bookmakers: A +150 / B +130 and A +140 / B +150.
ScenarioEntry ==
    [id |-> "g1",
     bookmakers |->
        << [title |-> "b1",
            markets |-> << H2H(<< [name |-> "A", price |-> 150],
                                  [name |-> "B", price |-> 130] >>) >>],
           [title |-> "b2",
            markets |-> << H2H(<< [name |-> "A", price |-> 140],
                                  [name |-> "B", price |-> 150] >>) >>] >>]

\* Two games on the line: the implied probabilities of +150 and -150 are
\* 0.4 and 0.6, summed in one order in g1 and in the other in g2.
BalancedEntry(game_id, first, second) ==
    [id |-> game_id,
     bookmakers |->
        << [title |-> "b1",
            markets |-> << H2H(<< [name |-> "A", price |-> first],
                                  [name |-> "B", price |-> second] >>) >>] >>]

BalancedFeed == << BalancedEntry("g1", 150, -150), BalancedEntry("g2", -150, 150) >>

\* predictions: game g1 is predicted (home A 0.60, away B 0.40), g2 is not.
Predictions ==
    "g1" :> << <<"home_team", "A">>,
               <<"away_team", "B">>,
               <<"home_win_probability", <<3, 5>>>>,
               <<"away_win_probability", <<2, 5>>>> >>

\* A prediction of g1 for two other teams, the probabilities listed away
\* first: no outcome name equals a team, every name is contained in a key.
PredictionsOtherTeams ==
    "g1" :> << <<"away_win_probability", <<2, 5>>>>,
               <<"home_win_probability", <<3, 5>>>>,
               <<"home_team", "H">>,
               <<"away_team", "W">> >>

\* A prediction of g1 without any probability field.
PredictionsNoProbability ==
    "g1" :> << <<"home_team", "H">>,
               <<"away_team", "W">> >>

PredictionPool == {Predictions, PredictionsOtherTeams, PredictionsNoProbability}

\* min_ev: the default 1.0, and 0.
MinEvs == {RInt(0), RInt(1)}

InitScan ==
    /\ op = "none"
    /\ args = <<>>
    /\ result = NoResult
    /\ raised = FALSE
    /\ odds_data \in {<<>>, <<ScenarioEntry>>, BalancedFeed}
    /\ added = 0
    /\ raw_data = <<>>
    /\ df = EmptyFrame

CanAdd == op = "none" /\ added < MaxExtraQuotes /\ NoTable

\* A further outcome in the last market of the feed.
AddOutcome ==
    /\ CanAdd
    /\ odds_data # <<>> /\ IsMapping(odds_data[Len(odds_data)])
    /\ \E o \in OutcomePool :
          LET e == Len(odds_data)
              b == Len(odds_data[e].bookmakers)
              m == Len(odds_data[e].bookmakers[b].markets)
          IN  odds_data' = [odds_data EXCEPT
                  ![e].bookmakers[b].markets[m].outcomes = Append(@, o)]
    /\ added' = added + 1
    /\ UNCHANGED <<op, args, result, raised, raw_data, df>>

\* A further market, not head-to-head, of the last bookmaker.
AddMarket ==
    /\ CanAdd
    /\ odds_data # <<>> /\ IsMapping(odds_data[Len(odds_data)])
    /\ \E o \in OutcomePool :
          LET e == Len(odds_data)
              b == Len(odds_data[e].bookmakers)
          IN  odds_data' = [odds_data EXCEPT
                  ![e].bookmakers[b].markets =
                      Append(@, [key |-> "spreads", outcomes |-> <<o>>])]
    /\ added' = added + 1
    /\ UNCHANGED <<op, args, result, raised, raw_data, df>>

\* A further bookmaker of the last entry.
AddBookmaker ==
    /\ CanAdd
    /\ odds_data # <<>> /\ IsMapping(odds_data[Len(odds_data)])
    /\ \E o \in OutcomePool :
          odds_data' = [odds_data EXCEPT
              ![Len(odds_data)].bookmakers =
                  Append(@, [title |-> "b3", markets |-> <<H2H(<<o>>)>>])]
    /\ added' = added + 1
    /\ UNCHANGED <<op, args, result, raised, raw_data, df>>

\* A further entry, of either game.
AddEntry ==
    /\ CanAdd
    /\ \E g \in GameIds, o \in OutcomePool :
          odds_data' = Append(odds_data,
              [id |-> g,
               bookmakers |-> << [title |-> "b1", markets |-> <<H2H(<<o>>)>>] >>])
    /\ added' = added + 1
    /\ UNCHANGED <<op, args, result, raised, raw_data, df>>

\* A further entry that is not a mapping.
AddMalformedEntry ==
    /\ CanAdd
    /\ odds_data' = Append(odds_data, NotAMapping)
    /\ added' = added + 1
    /\ UNCHANGED <<op, args, result, raised, raw_data, df>>

CallFindPositiveEvBets ==
    /\ op = "none"
    /\ NoTable
    /\ UNCHANGED <<odds_data, added, raw_data, df>>
    /\ \E predictions \in PredictionPool, min_ev \in MinEvs :
       \E rd \in [EvTies(predictions, odds_data, FloatOf(min_ev))
                    -> Places(EvTies(predictions, odds_data, FloatOf(min_ev)))] :
        /\ op' = "find_positive_ev_bets"
        /\ args' = [predictions |-> predictions, min_ev |-> min_ev, rd |-> rd]
        /\ raised' = FALSE
        /\ result' = find_positive_ev_bets(predictions, odds_data, FloatOf(min_ev), rd)

CallArbitrage ==
    /\ op = "none"
    /\ NoTable
    /\ UNCHANGED <<odds_data, added, raw_data, df>>
    /\ \E rd \in [SumTies(odds_data) -> Rounding] :
        /\ op' = "calculate_arbitrage_opportunities"
        /\ args' = [rd |-> rd]
        /\ raised' = FALSE
        /\ result' = calculate_arbitrage_opportunities(odds_data, rd)

NextScan ==
    \/ AddOutcome
    \/ AddMarket
    \/ AddBookmaker
    \/ AddEntry
    \/ AddMalformedEntry
    \/ CallFindPositiveEvBets
    \/ CallArbitrage

SpecScan == InitScan /\ [][NextScan]_vars

(***************************************************************************)
(* Properties of the odds model and the EV engine (specification Spec).    *)
(***************************************************************************)

\* C1: for every probability p in [0,1], odds a # 0 and bankroll >= 0,
\* calculate_kelly_criterion(p, a, bankroll) is never negative and never
\* exceeds 0.25 * bankroll.
C1_KellyWithinBounds ==
    (op = "calculate_kelly_criterion" /\ args.odds # 0)
        => /\ RLe(RInt(0), result.v)
           /\ RLe(result.v, RMul(<<1, 4>>, RInt(args.amount)))

\* C1 witness: a Kelly call with p < 1 whose stake is held at the 25% cap.
C1_Witness ==
    /\ op = "calculate_kelly_criterion"
    /\ args.odds # 0
    /\ args.p # <<1, 1>>
    /\ args.amount = 1000
    /\ result.v = <<250, 1>>

\* The EV of the canonical formula in closed form, for p = pn/pd and a # 0:
\* with (decimal - 1) = wn/wd, EV = stake * (pn*wn - (pd-pn)*wd) / (pd*wd).
EVClosedForm(p, a, stake) ==
    LET wn == IF a > 0 THEN a ELSE 100
        wd == IF a > 0 THEN 100 ELSE Abs(a)
    IN  Norm(stake * (p[1] * wn - (p[2] - p[1]) * wd), p[2] * wd)

\* C2: for every p, odds a # 0 and stake s, calculate_expected_value(p, a, s)
\* equals p * s * (american_to_decimal(a) - 1) - (1 - p) * s, and
\* calculate_ev_percentage(p, a) equals calculate_expected_value(p, a, 100).
C2_ExpectedValueFormula ==
    /\ (op = "calculate_expected_value" /\ args.odds # 0)
          => result.v = EVClosedForm(args.p, args.odds, args.amount)
    /\ (op = "calculate_ev_percentage" /\ args.odds # 0)
          => /\ result.v = EVClosedForm(args.p, args.odds, 100)
             /\ result = calculate_expected_value(FloatOf(args.p), args.odds, FInt(100))

\* C2 witness: the percentage EV of p = 0.60 at -110 is 160/11 (about 14.5).
C2_Witness ==
    /\ op = "calculate_ev_percentage"
    /\ args.p = <<3, 5>>
    /\ args.odds = -110
    /\ result.v = <<160, 11>>

\* The call calculate_expected_value(p=0.5, odds=-110, stake=100).
FairCoinCall ==
    /\ op = "calculate_expected_value"
    /\ args.p = <<1, 2>>
    /\ args.odds = -110
    /\ args.amount = 100

\* C3 as stated: calculate_expected_value(0.5, -110, 100) is approximately
\* -2.38 (within 0.01).
C3_FairCoinIsMinus238 ==
    FairCoinCall => /\ RLe(<<-239, 100>>, result.v)
                    /\ RLe(result.v, <<-237, 100>>)

\* C3 amended: calculate_expected_value(0.5, -110, 100) is approximately
\* -4.55 (within 0.01; the exact value is -50/11), and so negative.
C3_FairCoinIsMinus455 ==
    FairCoinCall => /\ RLe(<<-456, 100>>, result.v)
                    /\ RLe(result.v, <<-454, 100>>)
                    /\ RLt(result.v, RInt(0))

\* C3 witness: the fair-coin call has been made and returned -50/11.
C3_Witness == FairCoinCall /\ result.v = <<-50, 11>>

\* C4 as stated: for every odds a # 0 (even money -100 and |a| < 100 included),
\* decimal_to_american(american_to_decimal(a)) is within 1 of a.
C4_RoundTripAllOdds ==
    (op = "round_trip" /\ ~raised) => Abs(result - args.odds) <= 1

\* C4 amended: for every odds a >= 100 or a <= -101,
\* decimal_to_american(american_to_decimal(a)) is within 1 of a.
C4_RoundTripValidOdds ==
    (op = "round_trip" /\ (args.odds >= 100 \/ args.odds <= -101))
        => /\ ~raised
           /\ Abs(result - args.odds) <= 1

\* C4 witness: -110 comes back as -109, one off, within the tolerance.
C4_Witness ==
    /\ op = "round_trip"
    /\ args.odds = -110
    /\ result = -109

\* r rounded down (floor) for a rational r.
RFloor(r) == IF r[1] >= 0 THEN r[1] \div r[2] ELSE -((-r[1] + r[2] - 1) \div r[2])

\* i is an integer nearest to the rational r: |i - r| <= 1/2.
IsNearest(i, r) == 2 * Abs(i * r[2] - r[1]) <= r[2]

\* C5 as stated: decimal_to_american(d) is (d-1)*100 rounded down when
\* d >= 2.0, and -100/(d-1) rounded to the nearest integer when 1 < d < 2.0.
\* (For d >= 2.0 the value rounded down is that of the double, which may lie
\* just below the integer (d-1)*100 when d is not exactly representable.)
C5_DecimalToAmericanRounds ==
    (op = "decimal_to_american" /\ RLt(RInt(1), args.decimal_odds))
        => LET d == args.decimal_odds
               up == RMul(RSub(d, RInt(1)), RInt(100))
               down == RDiv(RInt(-100), RSub(d, RInt(1)))
           IN  IF RLe(RInt(2), d)
               THEN \/ result = RFloor(up)
                    \/ ~Dyadic(d) /\ up[2] = 1 /\ result = up[1] - 1
               ELSE IsNearest(result, down)

\* C6: for every odds a # 0, american_to_decimal(a) is a/100 + 1 when a > 0
\* and 100/|a| + 1 when a < 0, and implied_probability(a) is exactly
\* 1 / american_to_decimal(a).
C6_OddsConversionFormulas ==
    /\ (op = "american_to_decimal" /\ args.odds # 0)
          => /\ ~raised
             /\ result.v = IF args.odds > 0
                           THEN Norm(args.odds + 100, 100)
                           ELSE Norm(100 + Abs(args.odds), Abs(args.odds))
    /\ (op = "implied_probability" /\ args.odds # 0)
          => /\ ~raised
             /\ result.v = IF args.odds > 0
                           THEN Norm(100, args.odds + 100)
                           ELSE Norm(Abs(args.odds), 100 + Abs(args.odds))
             /\ RMul(result.v, american_to_decimal(args.odds).v) = RInt(1)

\* C6 witness: implied_probability(-150) has returned 3/5.
C6_Witness ==
    /\ op = "implied_probability"
    /\ args.odds = -150
    /\ result.v = <<3, 5>>

(***************************************************************************)
(* Properties of the two scans (specification SpecScan).  The feed is read *)
(* here through the set of its quotes, each named by its path              *)
(* <<entry, bookmaker, market, outcome>>; paths in lexicographic order are *)
(* the order of encounter of the nested loops.                             *)
(***************************************************************************)
OutcomePaths(feed) ==
    UNION {UNION {UNION {
        {<<e, b, m, k>> : k \in 1 .. Len(feed[e].bookmakers[b].markets[m].outcomes)} :
            m \in 1 .. Len(feed[e].bookmakers[b].markets)} :
            b \in 1 .. Len(feed[e].bookmakers)} :
            e \in {i \in 1 .. Len(feed) : IsMapping(feed[i])}}

PathGame(feed, p) == feed[p[1]].id

PathTitle(feed, p) == feed[p[1]].bookmakers[p[2]].title

PathKey(feed, p) == feed[p[1]].bookmakers[p[2]].markets[p[3]].key

PathOutcome(feed, p) == feed[p[1]].bookmakers[p[2]].markets[p[3]].outcomes[p[4]]

PathName(feed, p) == Get(PathOutcome(feed, p), "name", "")

PathPrice(feed, p) == Get(PathOutcome(feed, p), "price", 0)

PathBefore(p, q) ==
    \/ p[1] < q[1]
    \/ p[1] = q[1] /\ p[2] < q[2]
    \/ p[1] = q[1] /\ p[2] = q[2] /\ p[3] < q[3]
    \/ p[1] = q[1] /\ p[2] = q[2] /\ p[3] = q[3] /\ p[4] < q[4]

\* The head-to-head quotes of game g.
H2HPaths(feed, g) ==
    {p \in OutcomePaths(feed) : PathGame(feed, p) = g /\ PathKey(feed, p) = "h2h"}

H2HNames(feed, g) == {PathName(feed, p) : p \in H2HPaths(feed, g)}

\* The highest price quoted for name n in game g.
MaxPrice(feed, g, n) ==
    CHOOSE x \in {PathPrice(feed, p) : p \in {q \in H2HPaths(feed, g) : PathName(feed, q) = n}} :
        \A q \in H2HPaths(feed, g) : PathName(feed, q) = n => PathPrice(feed, q) <= x

\* The first quote, in order of encounter, of name n at its highest price.
FirstAtMax(feed, g, n) ==
    CHOOSE p \in H2HPaths(feed, g) :
        /\ PathName(feed, p) = n
        /\ PathPrice(feed, p) = MaxPrice(feed, g, n)
        /\ \A q \in H2HPaths(feed, g) :
              (PathName(feed, q) = n /\ PathPrice(feed, q) = MaxPrice(feed, g, n) /\ q # p)
                  => PathBefore(p, q)

\* 1/decimal for a price a # 0, as a rational.
ImpliedOf(a) == IF a > 0 THEN Norm(100, a + 100) ELSE Norm(Abs(a), Abs(a) + 100)

RECURSIVE SumOver(_, _, _)
SumOver(feed, g, names) ==
    IF names = {} THEN RInt(0)
    ELSE LET n == CHOOSE x \in names : TRUE
         IN  RAdd(ImpliedOf(MaxPrice(feed, g, n)), SumOver(feed, g, names \ {n}))

\* The sum of the implied probabilities of the best odds of game g.
TotalImplied(feed, g) == SumOver(feed, g, H2HNames(feed, g))

\* Every best price of game g is a valid (non-zero) price.
BestPricesValid(feed, g) == \A n \in H2HNames(feed, g) : MaxPrice(feed, g, n) # 0

\* The sum computed in doubles is strictly below 1.0: the rational sum is, or
\* it equals 1 with an inexact addend and the double sum rounded below it.
TotalBelowOne(feed, g, rd) ==
    \/ RLt(TotalImplied(feed, g), RInt(1))
    \/ /\ TotalImplied(feed, g) = RInt(1)
       /\ \E n \in H2HNames(feed, g) : ~Dyadic(ImpliedOf(MaxPrice(feed, g, n)))
       /\ rd[BestPrices(BestOddsEntries(<<>>, GameOdds(feed, g)))] < 0

ArbitrageCalled == op = "calculate_arbitrage_opportunities"

OpportunitiesOf(g) == {i \in 1 .. Len(result) : result[i].game_id = g}

FindCalled == op = "find_positive_ev_bets"

\* The malformed records of a feed: the entries that are not mappings, and
\* the outcomes with a missing name, or a missing or zero price.
MalformedEntries(feed) == {i \in 1 .. Len(feed) : ~IsMapping(feed[i])}

MalformedOutcomes(feed) ==
    {p \in OutcomePaths(feed) :
        \/ "name" \notin DOMAIN PathOutcome(feed, p)
        \/ PathPrice(feed, p) = 0}

RemoveAt(s, i) == SubSeq(s, 1, i - 1) \o SubSeq(s, i + 1, Len(s))

\* The feed without its i-th entry, and without the outcome at path p.
WithoutEntry(feed, i) == RemoveAt(feed, i)

WithoutOutcome(feed, p) ==
    [feed EXCEPT ![p[1]].bookmakers[p[2]].markets[p[3]].outcomes =
        RemoveAt(@, p[4])]

\* The feeds obtained by taking one malformed record away.
WithoutOneMalformed(feed) ==
    {WithoutEntry(feed, i) : i \in MalformedEntries(feed)}
        \cup {WithoutOutcome(feed, p) : p \in MalformedOutcomes(feed)}

\* Two calls round the computations they share the same way.
SameRounding(rd1, rd2) ==
    \A k \in DOMAIN rd1 \cap DOMAIN rd2 : rd1[k] = rd2[k]

\* C7: in find_positive_ev_bets and calculate_arbitrage_opportunities a
\* malformed record (an entry that is not a mapping, an outcome with a
\* missing name, a missing price or a zero price) is skipped for that record
\* only: the scan returns what it returns for the feed without that record.
\* The code does not have this property.
C7_MalformedRecordSkipped ==
    /\ FindCalled =>
          \A clean \in WithoutOneMalformed(odds_data) :
              \E rd \in [EvTies(args.predictions, clean, FloatOf(args.min_ev))
                            -> Places(DOMAIN args.rd \cup
                                      EvTies(args.predictions, clean,
                                             FloatOf(args.min_ev)))] :
                  /\ SameRounding(rd, args.rd)
                  /\ result = find_positive_ev_bets(args.predictions, clean,
                                                    FloatOf(args.min_ev), rd)
    /\ ArbitrageCalled =>
          \A clean \in WithoutOneMalformed(odds_data) :
              \E rd \in [SumTies(clean) -> Rounding] :
                  /\ SameRounding(rd, args.rd)
                  /\ result = calculate_arbitrage_opportunities(clean, rd)

\* C8: calculate_arbitrage_opportunities emits an opportunity for a game
\* exactly when at least two distinct outcome names are priced in its
\* head-to-head markets and the implied probabilities of the best odds sum
\* to strictly less than 1.0; its profit_margin is
\* (1 - total_implied_probability) * 100 and strictly positive.
C8_ArbitrageExactlyWhenBelowOne ==
    ArbitrageCalled /\ ~EntryRaises(odds_data) =>
        \A g \in GameIds :
            /\ OpportunitiesOf(g) # {}
                  <=> /\ ~_check_arbitrage_for_game_raises(GameOdds(odds_data, g))
                      /\ Cardinality(H2HNames(odds_data, g)) >= 2
                      /\ BestPricesValid(odds_data, g)
                      /\ TotalBelowOne(odds_data, g, args.rd)
            /\ \A i \in OpportunitiesOf(g) :
                  /\ result[i].total_implied_probability.v = TotalImplied(odds_data, g)
                  /\ result[i].profit_margin.v =
                        RMul(RSub(RInt(1), result[i].total_implied_probability.v), RInt(100))
                  /\ \/ RLt(RInt(0), result[i].profit_margin.v)
                     \/ /\ result[i].profit_margin.v = RInt(0)
                        /\ ~result[i].total_implied_probability.ex
                        /\ args.rd[BestPrices(result[i].best_odds)] < 0

\* C8 witness: best odds +150 and +150 found at two bookmakers among other
\* quotes: total 0.80, profit_margin 20.
C8_Witness ==
    /\ ArbitrageCalled
    /\ Len(result) = 1
    /\ result[1].total_implied_probability.v = <<4, 5>>
    /\ result[1].profit_margin.v = <<20, 1>>
    /\ Cardinality(H2HPaths(odds_data, "g1")) >= 4

\* C9: at most one opportunity per game_id, computed from all the entries of
\* the game together; best_odds holds, for each distinct outcome name of the
\* game's head-to-head markets and for no other name, the maximum price
\* quoted for it and the first bookmaker in order of encounter that quoted
\* it; markets that are not head-to-head never contribute.
C9_BestOddsPerGame ==
    ArbitrageCalled =>
        /\ \A i, j \in 1 .. Len(result) : result[i].game_id = result[j].game_id => i = j
        /\ \A i \in 1 .. Len(result) :
              LET g == result[i].game_id
                  best_odds == result[i].best_odds
              IN  /\ {best_odds[k][1] : k \in 1 .. Len(best_odds)} = H2HNames(odds_data, g)
                  /\ Len(best_odds) = Cardinality(H2HNames(odds_data, g))
                  /\ \A k \in 1 .. Len(best_odds) :
                        LET n == best_odds[k][1]
                        IN  /\ best_odds[k][2][2] = MaxPrice(odds_data, g, n)
                            /\ best_odds[k][2][1] =
                                  PathTitle(odds_data, FirstAtMax(odds_data, g, n))

\* C9 witness: an opportunity of a game whose best price for some name is
\* quoted by two different bookmakers in two different entries.
C9_Witness ==
    /\ ArbitrageCalled
    /\ Len(result) >= 1
    /\ \E p, q \in H2HPaths(odds_data, result[1].game_id) :
          /\ p[1] < q[1]
          /\ PathName(odds_data, p) = PathName(odds_data, q)
          /\ PathPrice(odds_data, p) = PathPrice(odds_data, q)
          /\ PathPrice(odds_data, p) =
                MaxPrice(odds_data, result[1].game_id, PathName(odds_data, p))
          /\ PathTitle(odds_data, p) # PathTitle(odds_data, q)

\* The opportunities in order of encounter, before the sort.
Encountered ==
    EntriesBets(args.predictions, odds_data, FloatOf(args.min_ev), args.rd)

\* x and y have equal expected_value (as doubles).
EvSame(x, y, rd) == ~EvGreater(x, y, rd) /\ ~EvGreater(y, x, rd)

\* The place of the k-th encountered opportunity in a stable descending
\* order: after those with a greater expected_value and after the earlier
\* ones with an equal expected_value.
StablePlace(u, k, rd) ==
    1 + Cardinality({j \in 1 .. Len(u) : EvGreater(u[j], u[k], rd)})
      + Cardinality({j \in 1 .. (k - 1) : EvSame(u[j], u[k], rd)})

\* C10: the list returned by find_positive_ev_bets is sorted by
\* expected_value in non-increasing order, and opportunities with equal
\* expected_value keep their order of encounter (stable sort).
C10_SortedStable ==
    FindCalled =>
        /\ \A i, j \in 1 .. Len(result) :
              i < j => ~EvGreater(result[j], result[i], args.rd)
        /\ ~ScanRaises(args.predictions, odds_data) =>
              /\ Len(result) = Len(Encountered)
              /\ \A k \in 1 .. Len(Encountered) :
                    result[StablePlace(Encountered, k, args.rd)] = Encountered[k]

\* C10 witness: a returned list that the sort had to reorder, which starts
\* with two opportunities of equal expected_value from different bookmakers
\* followed by a smaller one.
C10_Witness ==
    /\ FindCalled
    /\ Len(result) >= 3
    /\ result # Encountered
    /\ EvSame(result[1], result[2], args.rd)
    /\ result[1].bookmaker # result[2].bookmaker
    /\ EvGreater(result[2], result[3], args.rd)

(***************************************************************************)
(* Properties of find_positive_ev_bets (specification SpecScan).           *)
(***************************************************************************)
\* The outcomes the scan has to report: head-to-head quotes of a predicted
\* game whose team has a probability > 0 and whose percentage EV reaches
\* min_ev.
ScoredProbability(feed, p) ==
    _get_team_probability(args.predictions[PathGame(feed, p)], PathName(feed, p))

ScoredEv(feed, p) ==
    calculate_ev_percentage(FloatOf(ScoredProbability(feed, p)), PathPrice(feed, p))

EligiblePaths(feed) ==
    {p \in OutcomePaths(feed) :
        /\ PathKey(feed, p) = "h2h"
        /\ PathGame(feed, p) \in DOMAIN args.predictions
        /\ RLt(RInt(0), ScoredProbability(feed, p))
        /\ EvAtLeast(ScoredEv(feed, p), ScoredProbability(feed, p), PathPrice(feed, p),
                     FloatOf(args.min_ev), args.rd)}

\* The opportunity reported for the outcome at path p.
ExpectedBet(feed, p) ==
    [game_id |-> PathGame(feed, p),
     bookmaker |-> PathTitle(feed, p),
     team |-> PathName(feed, p),
     odds |-> PathPrice(feed, p),
     predicted_probability |-> ScoredProbability(feed, p),
     expected_value |-> ScoredEv(feed, p),
     market |-> "moneyline"]

Occurrences(s, x) == Cardinality({i \in 1 .. Len(s) : s[i] = x})

\* C11: find_positive_ev_bets returns exactly one opportunity for each
\* outcome of a head-to-head market whose entry id has a prediction, whose
\* team resolves to a probability > 0 and whose percentage EV is >= min_ev,
\* and nothing else: the returned list holds each such opportunity as many
\* times as there are outcomes that produce it, and no other record.  The
\* percentage EV of a record with valid odds is p*100*(decimal-1) - (1-p)*100.
C11_ExactlyTheEligibleOutcomes ==
    FindCalled /\ ~ScanRaises(args.predictions, odds_data) =>
        /\ \A p \in EligiblePaths(odds_data) :
              Occurrences(result, ExpectedBet(odds_data, p)) =
                  Cardinality({q \in EligiblePaths(odds_data) :
                                  ExpectedBet(odds_data, q) = ExpectedBet(odds_data, p)})
        /\ \A i \in 1 .. Len(result) :
              /\ \E p \in EligiblePaths(odds_data) : result[i] = ExpectedBet(odds_data, p)
              /\ result[i].odds # 0 =>
                    result[i].expected_value.v =
                        EVClosedForm(result[i].predicted_probability, result[i].odds, 100)
        /\ Len(result) = Cardinality(EligiblePaths(odds_data))

\* C11 witness: probability 0.60 at -110 (EV% 160/11, about 14.5) is
\* reported under the default min_ev 1.0, while the feed also holds a market
\* that is not head-to-head and a head-to-head outcome below the threshold.
C11_Witness ==
    /\ FindCalled
    /\ args.min_ev = RInt(1)
    /\ \E i \in 1 .. Len(result) :
          /\ result[i].odds = -110
          /\ result[i].predicted_probability = <<3, 5>>
          /\ result[i].expected_value.v = <<160, 11>>
    /\ \E p \in OutcomePaths(odds_data) : PathKey(odds_data, p) # "h2h"
    /\ Len(result) < Cardinality(H2HPaths(odds_data, "g1"))

\* The fields of a prediction whose key contains the team name (whatever
\* the case) and "probability".
MatchingFields(prediction, team_name) ==
    {k \in 1 .. Len(prediction) :
        /\ Contains(Lower(team_name), Lower(prediction[k][1]))
        /\ Contains(Lower("probability"), Lower(prediction[k][1]))}

FieldValue(prediction, key, default) ==
    IF \E k \in 1 .. Len(prediction) : prediction[k][1] = key
    THEN prediction[CHOOSE k \in 1 .. Len(prediction) : prediction[k][1] = key][2]
    ELSE default

\* The probability an outcome name is scored with.
ProbabilityUsed(prediction, team_name) ==
    IF \E k \in 1 .. Len(prediction) : prediction[k] = <<"home_team", team_name>>
    THEN FieldValue(prediction, "home_win_probability", RInt(0))
    ELSE IF \E k \in 1 .. Len(prediction) : prediction[k] = <<"away_team", team_name>>
    THEN FieldValue(prediction, "away_win_probability", RInt(0))
    ELSE IF MatchingFields(prediction, team_name) = {} THEN RInt(0)
    ELSE prediction[CHOOSE k \in MatchingFields(prediction, team_name) :
                        \A j \in MatchingFields(prediction, team_name) : k <= j][2]

\* C12: an outcome is scored with home_win_probability when its name equals
\* home_team, else with away_win_probability when it equals away_team, else
\* with the value of the first prediction field whose key contains the name
\* (case-insensitively) and "probability"; an outcome that matches none of
\* these has probability 0 and produces no opportunity.
C12_ProbabilityResolution ==
    FindCalled =>
        /\ \A i \in 1 .. Len(result) :
              LET used == ProbabilityUsed(args.predictions[result[i].game_id], result[i].team)
              IN  /\ result[i].predicted_probability = used
                  /\ RLt(RInt(0), used)
                  /\ result[i].odds # 0 =>
                        result[i].expected_value.v = EVClosedForm(used, result[i].odds, 100)
        /\ \A p \in OutcomePaths(odds_data) :
              (/\ PathGame(odds_data, p) \in DOMAIN args.predictions
               /\ ProbabilityUsed(args.predictions[PathGame(odds_data, p)],
                                  PathName(odds_data, p)) = RInt(0))
                  => \A i \in 1 .. Len(result) :
                        ~(/\ result[i].game_id = PathGame(odds_data, p)
                          /\ result[i].team = PathName(odds_data, p))

\* C12 witness: with a prediction for other teams that lists the away
\* probability first, the outcome "A" is scored with the first field whose
\* key contains "a" and "probability" (away_win_probability, 0.40), and an
\* exact match (home_team = "A") would have given another value.
C12_Witness ==
    /\ FindCalled
    /\ args.predictions = PredictionsOtherTeams
    /\ \E i \in 1 .. Len(result) :
          /\ result[i].team = "A"
          /\ result[i].predicted_probability = <<2, 5>>
    /\ ProbabilityUsed(Predictions["g1"], "A") = <<3, 5>>

(***************************************************************************)
(* Failure behaviour of the numeric calls (specification Spec).            *)
(***************************************************************************)
\* C13: with American odds 0, calculate_expected_value,
\* calculate_ev_percentage and calculate_kelly_criterion return the defined
\* zero result 0.0; no exception reaches the caller and the result is not
\* an infinity.
C13_ZeroOddsGiveZero ==
    (/\ op \in {"calculate_expected_value", "calculate_ev_percentage",
                "calculate_kelly_criterion"}
     /\ args.odds = 0)
        => /\ ~raised
           /\ result = FInt(0)

\* C13 witness: the Kelly stake of p = 0.60 at odds 0 on a bankroll of 1000.
C13_Witness ==
    /\ op = "calculate_kelly_criterion"
    /\ args.odds = 0
    /\ args.p = <<3, 5>>
    /\ args.amount = 1000
    /\ result = FInt(0)
    /\ ~raised

\* C14: no public operation lets an exception escape to its caller.  The
\* code does not have this property: the three conversions of the odds
\* model have no handler.
C14_NoExceptionEscapes == ~raised

(***************************************************************************)
(* DataProcessor (core/processing/data_processor.py).                      *)
(*                                                                         *)
(* A raw event is a Python dict read through .get, modelled like the odds  *)
(* feed: a record whose absent fields are missing keys, NotAMapping for a  *)
(* value without .get.  A text whose characters matter (a score, a date)   *)
(* is the sequence of its Unicode code points; names and ids are strings.  *)
(* A raw score is [int |-> n] or a float (JSON numbers), [bool |-> b],     *)
(* [str |-> text] or None; a raw date is [str |-> text] or a value that is *)
(* no string.                                                              *)
(*                                                                         *)
(* A DataFrame is [columns |-> names, rows |-> records]: a cell that is    *)
(* missing (None / NaN / NaT) is a field absent from its row, in a column  *)
(* that exists.  A score cell is [int |-> n] or a float, a date cell       *)
(* [str |-> text] or [timestamp |-> <<year, month, day>>] (a pandas        *)
(* Timestamp, midnight of that day).                                       *)
(***************************************************************************)
\* {} as a default of dict.get.
EmptyMapping == <<>>

\* None as a value of a field.
None == [none |-> TRUE]

\* DataProcessor._load_sport_mappings: the team_name_mappings of a sport
\* (the empty mapping for a sport without an entry).
team_name_mappings(sport) ==
    CASE sport = "mlb" -> ("LAA" :> "Los Angeles Angels" @@
                           "LAD" :> "Los Angeles Dodgers" @@
                           "NYY" :> "New York Yankees" @@
                           "NYM" :> "New York Mets")
      [] sport = "nfl" -> ("NE" :> "New England Patriots" @@
                           "GB" :> "Green Bay Packers" @@
                           "KC" :> "Kansas City Chiefs")
      [] sport = "nba" -> ("LAL" :> "Los Angeles Lakers" @@
                           "GSW" :> "Golden State Warriors" @@
                           "BOS" :> "Boston Celtics")
      [] OTHER -> EmptyMapping

\* DataProcessor.normalize_team_name: mappings.get(team_name, team_name).
normalize_team_name(team_name, sport) ==
    LET mappings == team_name_mappings(sport)
    IN  IF team_name \in DOMAIN mappings THEN mappings[team_name] ELSE team_name

\* The characters int() strips at both ends of a numeral: the ASCII white
\* space and the Unicode space characters outside ASCII.
WhiteSpace ==
    {9, 10, 11, 12, 13, 32, 133, 160, 5760, 8232, 8233, 8239, 8287, 12288}
        \cup (8192 .. 8202)

\* The zeros of the decimal digits of Unicode 14 (category Nd); the digits 1
\* to 9 of a script follow its zero.
DigitZeros ==
    {48, 1632, 1776, 1984, 2406, 2534, 2662, 2790, 2918, 3046, 3174, 3302, 3430,
     3558, 3664, 3792, 3872, 4160, 4240, 6112, 6160, 6470, 6608, 6784, 6800, 6992,
     7088, 7232, 7248, 42528, 43216, 43264, 43472, 43504, 43600, 44016, 65296,
     66720, 68912, 69734, 69872, 69942, 70096, 70384, 70736, 70864, 71248, 71360,
     71472, 71904, 72016, 72784, 73040, 73120, 92768, 92864, 93008, 120782,
     120792, 120802, 120812, 120822, 123200, 123632, 125264, 130032}

\* Py_UNICODE_TODECIMAL: the value of a decimal digit, -1 for any other
\* character.
ToDecimal(c) ==
    IF \E zero \in DigitZeros : c \in zero .. zero + 9
    THEN c - (CHOOSE zero \in DigitZeros : c \in zero .. zero + 9)
    ELSE -1

\* sys.get_int_max_str_digits(): the default limit of a numeral's digits.
MaxStrDigits == 4300

\* The numeral of a string without the white space around it: the indices
\* of its first and last character (first > last when nothing is left).
NumeralRange(text) ==
    LET kept == {i \in 1 .. Len(text) : text[i] \notin WhiteSpace}
    IN  IF kept = {} THEN <<1, 0>>
        ELSE <<CHOOSE i \in kept : \A j \in kept : i <= j,
               CHOOSE i \in kept : \A j \in kept : j <= i>>

\* int(x) raises: TypeError on a value that is no number and no string,
\* ValueError on a string that is not, white space apart, an optional sign
\* followed by decimal digits, each underscore between two digits, or that
\* has more than MaxStrDigits digits.
int_raises(x) ==
    \/ DOMAIN x \cap {"int", "v", "bool", "str"} = {}
    \/ /\ "str" \in DOMAIN x
       /\ LET first == NumeralRange(x.str)[1]
              last == NumeralRange(x.str)[2]
              start == IF first <= last /\ x.str[first] \in {43, 45}
                       THEN first + 1 ELSE first
              IsDigit(i) == ToDecimal(x.str[i]) >= 0
          IN  \/ start > last
              \/ \E i \in start .. last :
                    ~ \/ IsDigit(i)
                      \/ /\ x.str[i] = 95
                         /\ start < i
                         /\ i < last
                         /\ IsDigit(i - 1)
                         /\ IsDigit(i + 1)
              \/ Cardinality({i \in start .. last : IsDigit(i)}) > MaxStrDigits

\* int(x) of a number (a float is truncated toward zero, True is 1) or of a
\* numeral.
int(x) ==
    IF "int" \in DOMAIN x THEN x.int
    ELSE IF "bool" \in DOMAIN x THEN (IF x.bool THEN 1 ELSE 0)
    ELSE IF "v" \in DOMAIN x
    THEN (IF x.v[1] >= 0 THEN x.v[1] \div x.v[2] ELSE -((-x.v[1]) \div x.v[2]))
    ELSE LET first == NumeralRange(x.str)[1]
             last == NumeralRange(x.str)[2]
             RECURSIVE value(_, _)
             value(acc, i) ==
                 IF i > last THEN acc
                 ELSE IF ToDecimal(x.str[i]) < 0 THEN value(acc, i + 1)
                 ELSE value(10 * acc + ToDecimal(x.str[i]), i + 1)
         IN  IF x.str[first] = 45 THEN -value(0, first) ELSE value(0, first)

\* str.encode(): the UTF-8 bytes of a string.
RECURSIVE utf8(_)
utf8(text) ==
    IF text = <<>> THEN <<>>
    ELSE LET c == Head(text)
         IN  (IF c < 128 THEN <<c>>
              ELSE IF c < 2048 THEN <<192 + c \div 64, 128 + (c % 64)>>
              ELSE IF c < 65536
              THEN <<224 + c \div 4096, 128 + ((c \div 64) % 64), 128 + (c % 64)>>
              ELSE <<240 + c \div 262144, 128 + ((c \div 4096) % 64),
                     128 + ((c \div 64) % 64), 128 + (c % 64)>>)
             \o utf8(Tail(text))

\* The byte at offset p of a buffer that ends with a NUL byte.
ByteAt(buffer, p) == IF p < Len(buffer) THEN buffer[p + 1] ELSE 0

\* parse_digits: the value of the num_digits ASCII digits at offset p, -1
\* when one of the bytes is not an ASCII digit.
RECURSIVE parse_digits(_, _, _)
parse_digits(buffer, p, num_digits) ==
    IF num_digits = 0 THEN 0
    ELSE LET c == ByteAt(buffer, p + num_digits - 1)
             front == parse_digits(buffer, p, num_digits - 1)
         IN  IF c \notin 48 .. 57 \/ front < 0 THEN -1 ELSE 10 * front + (c - 48)

is_leap(year) == year % 4 = 0 /\ (year % 100 # 0 \/ year % 400 = 0)

days_in_month(year, month) ==
    IF month = 2 THEN (IF is_leap(year) THEN 29 ELSE 28)
    ELSE IF month \in {4, 6, 9, 11} THEN 30 ELSE 31

\* The days of the year before the first of the month.
days_before_month(year, month) ==
    <<0, 31, 59, 90, 120, 151, 181, 212, 243, 273, 304, 334>>[month]
        + (IF month > 2 /\ is_leap(year) THEN 1 ELSE 0)

\* The ordinal of a day: 0001-01-01 is day 1.
ymd_to_ord(year, month, day) ==
    LET y == year - 1
    IN  y * 365 + y \div 4 - y \div 100 + y \div 400
            + days_before_month(year, month) + day

\* The day of an ordinal (ordinal >= 1).
ord_to_ymd(ordinal) ==
    LET n400 == (ordinal - 1) \div 146097
        r400 == (ordinal - 1) % 146097
        n100 == r400 \div 36524
        r100 == r400 % 36524
        n4 == r100 \div 1461
        r4 == r100 % 1461
        n1 == r4 \div 365
        n == r4 % 365
        year == n400 * 400 + n100 * 100 + n4 * 4 + n1 + 1
        estimate == (n + 50) \div 32
        month == IF days_before_month(year, estimate) > n THEN estimate - 1 ELSE estimate
    IN  IF n1 = 4 \/ n100 = 4 THEN <<year - 1, 12, 31>>
        ELSE <<year, month, n - days_before_month(year, month) + 1>>

\* iso_to_ymd: the day of an ISO week date, <<>> when the week or the day of
\* the week is out of range (week 53 exists in a year that begins on a
\* Thursday and in a leap year that begins on a Wednesday).  No week of the
\* year 0 reaches 0001-01-01.
iso_to_ymd(iso_year, iso_week, iso_day) ==
    LET first_day == ymd_to_ord(iso_year, 1, 1)
        first_weekday == (first_day + 6) % 7
        week1_monday == first_day - first_weekday + (IF first_weekday > 3 THEN 7 ELSE 0)
    IN  IF \/ iso_year = 0
           \/ iso_week <= 0
           \/ iso_week > 53
           \/ iso_week = 53 /\ ~ \/ first_weekday = 3
                                 \/ first_weekday = 2 /\ is_leap(iso_year)
           \/ iso_day <= 0
           \/ iso_day >= 8
        THEN <<>>
        ELSE ord_to_ymd(week1_monday + (iso_week - 1) * 7 + iso_day - 1)

\* _find_isoformat_datetime_separator: the offset at which the date ends
\* (len >= 7), -1 for a week date that is cut short.
_find_isoformat_datetime_separator(dtstr) ==
    LET len == Len(dtstr)
        idx == CHOOSE i \in 7 .. len :
                   /\ \A j \in 7 .. (i - 1) : ByteAt(dtstr, j) \in 48 .. 57
                   /\ i = len \/ ByteAt(dtstr, i) \notin 48 .. 57
    IN  IF len = 7 THEN 7
        ELSE IF ByteAt(dtstr, 4) = 45
        THEN IF ByteAt(dtstr, 5) = 87
             THEN IF len > 8 /\ ByteAt(dtstr, 8) = 45
                  THEN IF len = 9 THEN -1
                       ELSE IF len > 10 /\ ByteAt(dtstr, 10) \in 48 .. 57 THEN 8
                       ELSE 10
                  ELSE 8
             ELSE 10
        ELSE IF ByteAt(dtstr, 4) = 87
        THEN IF idx < 9 THEN idx ELSE IF idx % 2 = 0 THEN 7 ELSE 8
        ELSE 8

\* parse_isoformat_date: <<year, month, day>> as written in the first len
\* bytes (a calendar date, or a week date converted by iso_to_ymd), <<>> when
\* the bytes are not a date.
parse_isoformat_date(dtstr, len) ==
    LET year == parse_digits(dtstr, 0, 4)
        uses_separator == ByteAt(dtstr, 4) = 45
        p == IF uses_separator THEN 5 ELSE 4
        iso_week == parse_digits(dtstr, p + 1, 2)
        q == IF uses_separator THEN p + 4 ELSE p + 3
        iso_day == IF p + 3 < len THEN parse_digits(dtstr, q, 1) ELSE 1
        month == parse_digits(dtstr, p, 2)
        day == parse_digits(dtstr, IF uses_separator THEN p + 3 ELSE p + 2, 2)
    IN  IF year < 0 THEN <<>>
        ELSE IF ByteAt(dtstr, p) = 87
        THEN IF \/ iso_week < 0
                \/ p + 3 < len /\ uses_separator /\ ByteAt(dtstr, p + 3) # 45
                \/ iso_day < 0
             THEN <<>>
             ELSE iso_to_ymd(year, iso_week, iso_day)
        ELSE IF \/ month < 0
                \/ uses_separator /\ ByteAt(dtstr, p + 2) # 45
                \/ day < 0
             THEN <<>>
             ELSE <<year, month, day>>

\* parse_hh_mm_ss_ff on the bytes from offset p up to offset p_end, from the
\* i-th component on: <<rv, hour, minute, second>> with rv < 0 for a
\* failure, 1 when bytes are left over and 0 otherwise.  Digits of a
\* fraction beyond the sixth are skipped.
RECURSIVE parse_hh_mm_ss_ff(_, _, _, _, _, _)
parse_hh_mm_ss_ff(tstr, p, p_end, i, separated, vals) ==
    LET fraction(at) ==
            LET to_parse == IF p_end - at >= 6 THEN 6 ELSE p_end - at
                stop == CHOOSE e \in (at + to_parse) .. (Len(tstr) + 1) :
                            /\ \A j \in (at + to_parse) .. (e - 1) :
                                  ByteAt(tstr, j) \in 48 .. 57
                            /\ ByteAt(tstr, e) \notin 48 .. 57
            IN  IF parse_digits(tstr, at, to_parse) < 0 THEN <<-3>> \o vals
                ELSE <<IF ByteAt(tstr, stop) # 0 THEN 1 ELSE 0>> \o vals
        component == parse_digits(tstr, p, 2)
        c == ByteAt(tstr, p + 2)
        has_separator == IF i = 0 THEN c = 58 ELSE separated
        parsed == [vals EXCEPT ![i + 1] = component]
    IN  IF i = 3 THEN fraction(p)
        ELSE IF component < 0 THEN <<-3>> \o vals
        ELSE IF p + 3 >= p_end THEN <<IF c # 0 THEN 1 ELSE 0>> \o parsed
        ELSE IF has_separator /\ c = 58
        THEN parse_hh_mm_ss_ff(tstr, p + 3, p_end, i + 1, has_separator, parsed)
        ELSE IF c \in {46, 44}
        THEN parse_hh_mm_ss_ff(tstr, p + 3, p_end, 3, has_separator, parsed)
        ELSE IF ~has_separator
        THEN parse_hh_mm_ss_ff(tstr, p + 2, p_end, i + 1, has_separator, parsed)
        ELSE <<-4>> \o vals

\* parse_isoformat_time on the bytes from offset p, followed by the range
\* checks of the datetime and timezone constructors: TRUE when the time of
\* day and the offset, if any, are accepted (hour 0..23, minute and second
\* 0..59, the offset strictly within 24 hours).
parse_isoformat_time(dtstr, p) ==
    LET p_end == Len(dtstr)
        IsTz(j) == ByteAt(dtstr, j) \in {90, 43, 45}
        tzinfo_pos == IF IsTz(p) THEN p
                      ELSE IF \E j \in (p + 1) .. (p_end - 1) : IsTz(j)
                      THEN CHOOSE j \in (p + 1) .. (p_end - 1) :
                               IsTz(j) /\ \A k \in p .. (j - 1) : ~IsTz(k)
                      ELSE IF p + 1 < p_end THEN p_end ELSE p + 1
        time == parse_hh_mm_ss_ff(dtstr, p, tzinfo_pos, 0, TRUE, <<0, 0, 0>>)
        tz == parse_hh_mm_ss_ff(dtstr, tzinfo_pos + 1, p_end, 0, TRUE, <<0, 0, 0>>)
    IN  /\ time[1] >= 0
        /\ time[2] <= 23
        /\ time[3] <= 59
        /\ time[4] <= 59
        /\ IF tzinfo_pos = p_end THEN time[1] = 0
           ELSE IF ByteAt(dtstr, tzinfo_pos) = 90 THEN ByteAt(dtstr, tzinfo_pos + 1) = 0
           ELSE /\ tz[1] = 0
                /\ tz[2] * 3600 + tz[3] * 60 + tz[4] < 86400

\* datetime.fromisoformat(date_string): the date <<year, month, day>> of the
\* datetime, <<>> when ValueError is raised.  The time of day and the offset
\* are checked and dropped: strftime("%Y-%m-%d") reads the date as written.
fromisoformat(date_string) ==
    LET dt == utf8(date_string)
        len == Len(dt)
        separator_location == _find_isoformat_datetime_separator(dt)
        date == IF separator_location < 0 THEN <<>>
                ELSE parse_isoformat_date(dt, separator_location)
        lead == ByteAt(dt, separator_location)
        width == IF lead < 128 THEN 1
                 ELSE IF lead \div 16 = 14 THEN 3
                 ELSE IF lead \div 16 = 15 THEN 4
                 ELSE 2
    IN  IF len < 7 THEN <<>>
        ELSE IF date = <<>> THEN <<>>
        ELSE IF \/ date[1] \notin 1 .. 9999
                \/ date[2] \notin 1 .. 12
                \/ date[3] \notin 1 .. days_in_month(date[1], date[2])
        THEN <<>>
        ELSE IF len > separator_location
                    /\ ~parse_isoformat_time(dt, separator_location + width)
        THEN <<>>
        ELSE date

\* str.replace("Z", "+00:00")
RECURSIVE replace(_)
replace(text) ==
    IF text = <<>> THEN <<>>
    ELSE (IF Head(text) = 90 THEN <<43, 48, 48, 58, 48, 48>> ELSE <<Head(text)>>)
             \o replace(Tail(text))

\* str(n) of a natural number: its ASCII digits.
RECURSIVE str(_)
str(n) == IF n < 10 THEN <<48 + n>> ELSE str(n \div 10) \o <<48 + (n % 10)>>

\* date.strftime("%Y-%m-%d"): the year is not padded (glibc), month and day
\* have two digits.
strftime(date) ==
    str(date[1]) \o <<45, 48 + date[2] \div 10, 48 + (date[2] % 10),
                      45, 48 + date[3] \div 10, 48 + (date[3] % 10)>>

\* Lines 185-188: the date datetime.fromisoformat returns for the event, <<>>
\* when the date is absent, empty or no string (no .replace), or when
\* fromisoformat raises.
ParsedDate(game) ==
    LET date_str == Get(game, "date", [str |-> <<>>])
    IN  IF "str" \in DOMAIN date_str /\ date_str.str # <<>>
        THEN fromisoformat(replace(date_str.str))
        ELSE <<>>

\* DataProcessor._extract_game_date: the calendar day of the timestamp as
\* written; the day of processing (today, the reading of datetime.now())
\* when there is no parsed date.
_extract_game_date(game, today) ==
    LET day(dt) == IF dt = <<>> THEN strftime(today) ELSE strftime(dt)
    IN  day(ParsedDate(game))

\* x.get("status", {}).get("type", {}) raises AttributeError when status or
\* type has no .get.
StatusTypeRaises(x) ==
    \/ ~IsMapping(Get(x, "status", EmptyMapping))
    \/ ~IsMapping(Get(Get(x, "status", EmptyMapping), "type", EmptyMapping))

StatusType(x) == Get(Get(x, "status", EmptyMapping), "type", EmptyMapping)

\* The body of `for competitor in competitors` raises.
CompetitorRaises(competitor) ==
    \/ ~IsMapping(competitor)
    \/ ~IsMapping(Get(competitor, "team", EmptyMapping))
    \/ int_raises(Get(competitor, "score", [int |-> 0]))

\* Mutant: the first competitor of the list is taken as home, the others as
\* away, whatever their flag.
RECURSIVE ApplyCompetitors_by_position(_, _, _)
ApplyCompetitors_by_position(normalized, competitors, sport) ==
    IF competitors = <<>> THEN normalized
    ELSE LET competitor == Head(competitors)
             team_name == normalize_team_name(
                 Get(Get(competitor, "team", EmptyMapping), "displayName", ""), sport)
             score == [int |-> int(Get(competitor, "score", [int |-> 0]))]
         IN  ApplyCompetitors_by_position(
                 IF normalized.home_team = "" /\ normalized.away_team = ""
                 THEN [normalized EXCEPT !.home_team = team_name, !.home_score = score]
                 ELSE [normalized EXCEPT !.away_team = team_name, !.away_score = score],
                 Tail(competitors), sport)

\* for competitor in competitors (lines 148-158): the competitor flagged
\* "home" sets the home side, any other competitor the away side.
RECURSIVE ApplyCompetitors(_, _, _)
ApplyCompetitors(normalized, competitors, sport) ==
    IF competitors = <<>> THEN normalized
    ELSE LET competitor == Head(competitors)
             team_name == normalize_team_name(
                 Get(Get(competitor, "team", EmptyMapping), "displayName", ""), sport)
             score == [int |-> int(Get(competitor, "score", [int |-> 0]))]
         IN  ApplyCompetitors(
                 IF Get(competitor, "homeAway", "<None>") = "home"
                 THEN [normalized EXCEPT !.home_team = team_name, !.home_score = score]
                 ELSE [normalized EXCEPT !.away_team = team_name, !.away_score = score],
                 Tail(competitors), sport)

HasCompetition(game) ==
    "competitions" \in DOMAIN game /\ Len(game.competitions) > 0

\* An exception is raised inside the try of _normalize_single_game.
_normalize_single_game_raises(game) ==
    \/ ~IsMapping(game)
    \/ StatusTypeRaises(game)
    \/ /\ HasCompetition(game)
       /\ LET competition == game.competitions[1]
          IN  \/ ~IsMapping(competition)
              \/ \E i \in 1 .. Len(Get(competition, "competitors", <<>>)) :
                    CompetitorRaises(Get(competition, "competitors", <<>>)[i])
              \/ StatusTypeRaises(competition)

\* The record built by _normalize_single_game before its validation.
NormalizedFields(game, sport, today) ==
    LET competitions(normalized) ==
            IF HasCompetition(game)
            THEN LET competition == game.competitions[1]
                 IN  [ApplyCompetitors(normalized, Get(competition, "competitors", <<>>), sport)
                         EXCEPT !.is_completed =
                                    Get(StatusType(competition), "completed", FALSE)]
            ELSE normalized
    IN  competitions([game_id |-> Get(game, "id", ""),
                      sport |-> sport,
                      date |-> [str |-> _extract_game_date(game, today)],
                      status |-> Get(StatusType(game), "name", ""),
                      home_team |-> "",
                      away_team |-> "",
                      home_score |-> [int |-> 0],
                      away_score |-> [int |-> 0],
                      is_completed |-> FALSE])

\* Mutant: the event is kept when one of its teams is known.
_normalize_single_game_one_team(game, sport, today) ==
    LET validated(normalized) ==
            IF normalized.home_team # "" \/ normalized.away_team # ""
            THEN <<normalized>>
            ELSE <<>>
    IN  IF _normalize_single_game_raises(game) THEN <<>>
        ELSE validated(NormalizedFields(game, sport, today))

\* DataProcessor._normalize_single_game: <<record>>, or <<>> for None (a team
\* is missing, or the event raised).  today is what datetime.now() reads
\* while the event is processed.
_normalize_single_game(game, sport, today) ==
    LET validated(normalized) ==
            IF normalized.home_team # "" /\ normalized.away_team # ""
            THEN <<normalized>>
            ELSE <<>>
    IN  IF _normalize_single_game_raises(game) THEN <<>>
        ELSE validated(NormalizedFields(game, sport, today))

\* DataProcessor._add_mlb_features
_add_mlb_features(row) ==
    row @@ [is_high_scoring |-> row.total_score.int > 9,
            is_low_scoring |-> row.total_score.int < 7]

\* Mutant: a differential of exactly 14 is a blowout.
_add_nfl_features_inclusive(row) ==
    row @@ [is_high_scoring |-> row.total_score.int > 45,
            is_low_scoring |-> row.total_score.int < 35,
            is_blowout |-> Abs(row.score_differential.int) >= 14]

\* DataProcessor._add_nfl_features
_add_nfl_features(row) ==
    row @@ [is_high_scoring |-> row.total_score.int > 45,
            is_low_scoring |-> row.total_score.int < 35,
            is_blowout |-> Abs(row.score_differential.int) > 14]

\* DataProcessor._add_nba_features
_add_nba_features(row) ==
    row @@ [is_high_scoring |-> row.total_score.int > 220,
            is_low_scoring |-> row.total_score.int < 200,
            is_close_game |-> Abs(row.score_differential.int) <= 5]

\* Mutant: the result stated from the away side.
DerivedRow_away_perspective(row, sport) ==
    LET home_score == row.home_score.int
        away_score == row.away_score.int
        derived ==
            row @@ [total_score |-> [int |-> home_score + away_score],
                    score_differential |-> [int |-> home_score - away_score],
                    winner |-> IF home_score > away_score THEN row.home_team
                               ELSE IF away_score > home_score THEN row.away_team
                               ELSE "Tie",
                    home_team_result |-> IF home_score > away_score THEN "Loss"
                                         ELSE IF away_score > home_score THEN "Win"
                                         ELSE "Tie"]
    IN  IF sport = "mlb" THEN _add_mlb_features(derived)
        ELSE IF sport = "nfl" THEN _add_nfl_features(derived)
        ELSE IF sport = "nba" THEN _add_nba_features(derived)
        ELSE derived

\* The columns _add_derived_features adds to one row of the table of the
\* normalized games, whose scores are integers (the column operations of
\* lines 209-242 act row by row).
DerivedRow(row, sport) ==
    LET home_score == row.home_score.int
        away_score == row.away_score.int
        derived ==
            row @@ [total_score |-> [int |-> home_score + away_score],
                    score_differential |-> [int |-> home_score - away_score],
                    winner |-> IF home_score > away_score THEN row.home_team
                               ELSE IF away_score > home_score THEN row.away_team
                               ELSE "Tie",
                    home_team_result |-> IF home_score > away_score THEN "Win"
                                         ELSE IF away_score > home_score THEN "Loss"
                                         ELSE "Tie"]
    IN  IF sport = "mlb" THEN _add_mlb_features(derived)
        ELSE IF sport = "nfl" THEN _add_nfl_features(derived)
        ELSE IF sport = "nba" THEN _add_nba_features(derived)
        ELSE derived

\* pd.DataFrame(data) of a list of dicts: a column for every key.  A score
\* column with a float or a missing cell is a float64 column: its integers
\* are floats.
DataFrame(data) ==
    LET float64(column) ==
            \E i \in 1 .. Len(data) :
                column \notin DOMAIN data[i] \/ "v" \in DOMAIN data[i][column]
        Cell(row, column) ==
            IF /\ column \in {"home_score", "away_score"}
               /\ float64(column)
               /\ "int" \in DOMAIN row[column]
            THEN FInt(row[column].int)
            ELSE row[column]
    IN  [columns |-> UNION {DOMAIN data[i] : i \in 1 .. Len(data)},
         rows |-> [i \in 1 .. Len(data) |->
                      [column \in DOMAIN data[i] |-> Cell(data[i], column)]]]

\* DataProcessor._add_derived_features
_add_derived_features(table, sport) ==
    DataFrame([i \in 1 .. Len(table.rows) |-> DerivedRow(table.rows[i], sport)])

\* for game in raw_data (lines 102-105): the records of the events from the
\* i-th on that yield one, in order; now[j] is the day datetime.now() reads
\* while event j is processed.
RECURSIVE NormalizedGames(_, _, _, _)
NormalizedGames(raw, sport, now, i) ==
    IF i > Len(raw) THEN <<>>
    ELSE _normalize_single_game(raw[i], sport, now[i])
             \o NormalizedGames(raw, sport, now, i + 1)

\* DataProcessor.normalize_game_data: the table of the normalized games with
\* its derived columns; the empty table when there is no game.
normalize_game_data(raw, sport, now) ==
    LET frame(normalized_games) ==
            IF normalized_games # <<>>
            THEN _add_derived_features(DataFrame(normalized_games), sport)
            ELSE EmptyFrame
    IN  frame(NormalizedGames(raw, sport, now, 1))

\* The rows of a table at the given indices, in order.
RECURSIVE RowsAt(_, _, _)
RowsAt(rows, indices, i) ==
    IF i > Len(rows) THEN <<>>
    ELSE (IF i \in indices THEN <<rows[i]>> ELSE <<>>) \o RowsAt(rows, indices, i + 1)

\* df.drop_duplicates(subset=["game_id"], keep="first"): the row is the first
\* with its game_id; missing game_ids are equal to each other.
IsFirstOfGameId(rows, i) ==
    \A j \in 1 .. (i - 1) :
        IF "game_id" \in DOMAIN rows[i]
        THEN "game_id" \notin DOMAIN rows[j] \/ rows[j].game_id # rows[i].game_id
        ELSE "game_id" \in DOMAIN rows[j]

\* df.dropna(subset=["home_team", "away_team", "date"])
HasCriticalData(rows, i) ==
    {"home_team", "away_team", "date"} \subseteq DOMAIN rows[i]

\* df[column] >= 0 in one row: False on a missing cell (NaN).
IsNonNegative(row, column) ==
    /\ column \in DOMAIN row
    /\ IF "int" \in DOMAIN row[column] THEN row[column].int >= 0
       ELSE row[column].v[1] >= 0

\* df[(df["home_score"] >= 0) & (df["away_score"] >= 0)]
HasValidScores(rows, i) ==
    IsNonNegative(rows[i], "home_score") /\ IsNonNegative(rows[i], "away_score")

\* The comparison of line 293 raises: KeyError without the column, TypeError
\* on a cell that is not a number.
ScoreFilterRaises(table) ==
    \E column \in {"home_score", "away_score"} :
        \/ column \notin table.columns
        \/ \E i \in 1 .. Len(table.rows) :
              /\ column \in DOMAIN table.rows[i]
              /\ DOMAIN table.rows[i][column] \cap {"int", "v"} = {}

\* The strings pandas reads as NaT: the empty string and nat_strings.
NatStrings ==
    {<<>>, <<78, 97, 84>>, <<110, 97, 116>>, <<78, 65, 84>>,
     <<110, 97, 110>>, <<78, 97, 78>>, <<78, 65, 78>>}

\* The day of a text of the form YYYY-MM-DD (ASCII digits) that pandas holds
\* as a nanosecond Timestamp (1677-09-22 to 2262-04-11), <<>> for any other
\* text.
IsoDay(text) ==
    LET year == parse_digits(text, 0, 4)
        month == parse_digits(text, 5, 2)
        day == parse_digits(text, 8, 2)
    IN  IF /\ Len(text) = 10
           /\ text[5] = 45
           /\ text[8] = 45
           /\ year >= 1
           /\ month \in 1 .. 12
           /\ day >= 1
           /\ day <= days_in_month(year, month)
           /\ ymd_to_ord(year, month, day) >= ymd_to_ord(1677, 9, 22)
           /\ ymd_to_ord(year, month, day) <= ymd_to_ord(2262, 4, 11)
        THEN <<year, month, day>>
        ELSE <<>>

\* A text no parser of pandas or dateutil reads: one word of three or more
\* ASCII letters without a vowel (no month, weekday or keyword is spelled
\* so), the zone and unit names GMT and HRS apart.
IsUnreadable(text) ==
    LET lower == [i \in 1 .. Len(text) |-> IF text[i] \in 65 .. 90 THEN text[i] + 32 ELSE text[i]]
    IN  /\ Len(text) >= 3
        /\ \A i \in 1 .. Len(text) : lower[i] \in (97 .. 122) \ {97, 101, 105, 111, 117}
        /\ lower \notin {<<103, 109, 116>>, <<104, 114, 115>>}

\* The date cells whose reading depends on the version of pandas: a text
\* that is neither NaT, a day in ISO format nor unreadable, or a value that
\* is no text and no Timestamp.
IsVersionDependent(cell) ==
    /\ "timestamp" \notin DOMAIN cell
    /\ "str" \in DOMAIN cell =>
          /\ cell.str \notin NatStrings
          /\ IsoDay(cell.str) = <<>>
          /\ ~IsUnreadable(cell.str)

\* pd.to_datetime(df["date"]) raises: on an unreadable text, and on a
\* version-dependent cell that the pandas at hand (pd) rejects.
to_datetime_raises(table, pd) ==
    \E i \in 1 .. Len(table.rows) :
        LET cell == table.rows[i].date
        IN  \/ "str" \in DOMAIN cell /\ IsUnreadable(cell.str)
            \/ IsVersionDependent(cell) /\ pd[cell] = "raise"

\* pd.to_datetime of one row: a Timestamp stays, a day in ISO format becomes
\* the Timestamp of that day, a NaT string a missing cell, and a
\* version-dependent cell a Timestamp the model does not determine.
to_datetime(row, pd) ==
    IF "timestamp" \in DOMAIN row.date THEN row
    ELSE IF IsVersionDependent(row.date) THEN [row EXCEPT !.date = [timestamp |-> <<>>]]
    ELSE IF row.date.str \in NatStrings THEN [column \in DOMAIN row \ {"date"} |-> row[column]]
    ELSE [row EXCEPT !.date = [timestamp |-> IsoDay(row.date.str)]]

\* df[column].astype(int) in one row: a float is truncated.
astype(row, column) ==
    [row EXCEPT ![column] = [int |-> int(row[column])]]

\* DataProcessor.clean_data.  try: filter, convert the types, return the
\* table; except Exception: return df as it is at that moment: the table
\* as given when it has no game_id column, the deduplicated one when a
\* critical column is missing, the one without the incomplete rows when the
\* score comparison raises, the filtered one when the date conversion
\* raises.
clean_data(table, pd) ==
    LET deduplicated ==
            [table EXCEPT !.rows = RowsAt(@, {i \in 1 .. Len(@) : IsFirstOfGameId(@, i)}, 1)]
        complete ==
            [deduplicated EXCEPT
                !.rows = RowsAt(@, {i \in 1 .. Len(@) : HasCriticalData(@, i)}, 1)]
        valid ==
            [complete EXCEPT
                !.rows = RowsAt(@, {i \in 1 .. Len(@) : HasValidScores(@, i)}, 1)]
    IN  IF "game_id" \notin table.columns THEN table
        ELSE IF ~({"home_team", "away_team", "date"} \subseteq table.columns) THEN deduplicated
        ELSE IF ScoreFilterRaises(complete) THEN complete
        ELSE IF to_datetime_raises(valid, pd) THEN valid
        ELSE [valid EXCEPT
                 !.rows = [i \in 1 .. Len(@) |->
                              astype(astype(to_datetime(@[i], pd), "home_score"),
                                     "away_score")]]

\* row["home_team"] == team_name on a cell that may be missing.
CellIs(row, column, value) == column \in DOMAIN row /\ row[column] = value

IsTeamGame(rows, i, team_name) ==
    CellIs(rows[i], "home_team", team_name) \/ CellIs(rows[i], "away_team", team_name)

\* Mutant: the result column read from the home side for both teams.
CountsAsWin_home_side(row, team_name) ==
    \/ CellIs(row, "home_team", team_name) /\ CellIs(row, "home_team_result", "Win")
    \/ CellIs(row, "away_team", team_name) /\ CellIs(row, "home_team_result", "Win")

\* Lines 340-343: the rows counted as wins of team_name.
CountsAsWin(row, team_name) ==
    \/ CellIs(row, "home_team", team_name) /\ CellIs(row, "home_team_result", "Win")
    \/ CellIs(row, "away_team", team_name) /\ CellIs(row, "home_team_result", "Loss")

\* Lines 345-348: the rows counted as losses of team_name.
CountsAsLoss(row, team_name) ==
    \/ CellIs(row, "home_team", team_name) /\ CellIs(row, "home_team_result", "Loss")
    \/ CellIs(row, "away_team", team_name) /\ CellIs(row, "home_team_result", "Win")

\* NaN: the value of a missing score cell.
NaN == [nan |-> TRUE]

\* Mutant: the team is taken to be the home side of every game.
ScoreIn_home_always(row, team_name, opponent) ==
    Get(row, IF ~opponent THEN "home_score" ELSE "away_score", NaN)

\* Lines 354-360: the score of the team (opponent = FALSE) or of its
\* opponent (opponent = TRUE) in one of its games.
ScoreIn(row, team_name, opponent) ==
    Get(row,
        IF CellIs(row, "home_team", team_name) = ~opponent
        THEN "home_score" ELSE "away_score",
        NaN)

\* x + y (sign = 1) and x - y (sign = -1) of two scores: an integer for two
\* integers, NaN when one is NaN, a float otherwise.
Plus(x, y, sign) ==
    LET float(z) == IF "int" \in DOMAIN z THEN FInt(z.int) ELSE z
    IN  IF "nan" \in DOMAIN x \/ "nan" \in DOMAIN y THEN NaN
        ELSE IF "int" \in DOMAIN x /\ "int" \in DOMAIN y
        THEN [int |-> x.int + sign * y.int]
        ELSE IF sign = 1 THEN FAdd(float(x), float(y))
        ELSE FSub(float(x), float(y))

\* sum(team_scores): 0 + the scores, from left to right.
RECURSIVE SumOf(_)
SumOf(scores) ==
    IF scores = <<>> THEN [int |-> 0]
    ELSE Plus(SumOf(SubSeq(scores, 1, Len(scores) - 1)), scores[Len(scores)], 1)

\* np.mean(team_scores): the float sum / len, NaN when a score is NaN.
mean(scores) ==
    LET total == SumOf(scores)
    IN  IF "nan" \in DOMAIN total THEN NaN
        ELSE FDiv(IF "int" \in DOMAIN total THEN FInt(total.int) ELSE total,
                  FInt(Len(scores)))

\* DataProcessor.aggregate_team_stats: {} when no game involves the team, and
\* from the except clause (KeyError) when the table lacks one of the columns
\* read.
aggregate_team_stats(table, team_name) ==
    LET rows == table.rows
        games == {i \in 1 .. Len(rows) : IsTeamGame(rows, i, team_name)}
        team_games == RowsAt(rows, games, 1)
        total_games == Len(team_games)
        wins == Cardinality({i \in games : CountsAsWin(rows[i], team_name)})
        losses == Cardinality({i \in games : CountsAsLoss(rows[i], team_name)})
        team_scores == [i \in 1 .. total_games |-> ScoreIn(team_games[i], team_name, FALSE)]
        opponent_scores == [i \in 1 .. total_games |-> ScoreIn(team_games[i], team_name, TRUE)]
    IN  IF ~({"home_team", "away_team"} \subseteq table.columns) THEN EmptyMapping
        ELSE IF games = {} THEN EmptyMapping
        ELSE IF ~({"home_team_result", "home_score", "away_score"} \subseteq table.columns)
        THEN EmptyMapping
        ELSE [team_name |-> team_name,
              total_games |-> total_games,
              wins |-> wins,
              losses |-> losses,
              win_percentage |-> FDiv(FInt(wins), FInt(total_games)),
              home_games |-> Cardinality({i \in games : CellIs(rows[i], "home_team", team_name)}),
              away_games |-> Cardinality({i \in games : CellIs(rows[i], "away_team", team_name)}),
              avg_points_scored |-> mean(team_scores),
              avg_points_allowed |-> mean(opponent_scores),
              total_points_scored |-> SumOf(team_scores),
              total_points_allowed |-> SumOf(opponent_scores),
              point_differential |-> Plus(SumOf(team_scores), SumOf(opponent_scores), -1)]

(***************************************************************************)
(* The data processor as a state machine (specification SpecData): raw     *)
(* events are collected and normalized into a table, or a table is put     *)
(* together row by row; a table is cleaned and aggregated for a team.      *)
(***************************************************************************)
\* At most MaxEvents raw events are normalized in one call.
MaxEvents == 3
\* A table put together row by row has at most MaxRows rows.
MaxRows == 3

Sports == {"mlb", "nfl", "nba", "nhl"}

Competitor(name, score, flag) ==
    [team |-> [displayName |-> name], score |-> score, homeAway |-> flag]

Final == [type |-> [name |-> "STATUS_FINAL", completed |-> TRUE]]

EventPool ==
    { \* home listed first, home wins; "2024-01-05T19:00:00Z"; scores "110"
      \* and "102"
      [id |-> "401",
       date |-> [str |-> <<50, 48, 50, 52, 45, 48, 49, 45, 48, 53, 84,
                           49, 57, 58, 48, 48, 58, 48, 48, 90>>],
       status |-> Final,
       competitions |-> << [competitors |->
            << Competitor("LAL", [str |-> <<49, 49, 48>>], "home"),
               Competitor("BOS", [str |-> <<49, 48, 50>>], "away") >>,
            status |-> Final] >>],
      \* away listed first, a tie; no date, no status; white space around
      \* the scores: a vertical tab before "99", a next-line character (U+0085)
      \* after it
      [id |-> "402",
       competitions |-> << [competitors |->
            << Competitor("GSW", [str |-> <<11, 57, 57>>], "away"),
               Competitor("Chicago Bulls", [str |-> <<57, 57, 133>>], "home") >>] >>],
      \* the id of the first event again, home loses 95 - "101"; the date "TBD"
      [id |-> "401", date |-> [str |-> <<84, 66, 68>>],
       competitions |-> << [competitors |->
            << Competitor("BOS", [int |-> 95], "home"),
               Competitor("LAL", [str |-> <<49, 48, 49>>], "away") >>] >>],
      \* a negative score, "-1_2" followed by a no-break space, against "4";
      \* the timestamp in the basic format, "20240106T013000Z"
      [id |-> "403",
       date |-> [str |-> <<50, 48, 50, 52, 48, 49, 48, 54, 84,
                           48, 49, 51, 48, 48, 48, 90>>],
       competitions |-> << [competitors |->
            << Competitor("NYY", [str |-> <<45, 49, 95, 50, 160>>], "home"),
               Competitor("KC", [str |-> <<52>>], "away") >>] >>],
      \* only one team; an empty date
      [id |-> "404", date |-> [str |-> <<>>],
       competitions |-> << [competitors |->
            << Competitor("LAL", [str |-> <<49>>], "home") >>] >>],
      \* no competition at all
      [id |-> "405",
       date |-> [str |-> <<50, 48, 50, 52, 45, 48, 49, 45, 48, 53, 84,
                           49, 57, 58, 48, 48, 58, 48, 48, 90>>]],
      \* a score that is not a number, "N/A"
      [id |-> "406",
       competitions |-> << [competitors |->
            << Competitor("LAL", [str |-> <<78, 47, 65>>], "home"),
               Competitor("BOS", [str |-> <<49>>], "away") >>] >>],
      \* a status that is not a mapping
      [id |-> "407", status |-> NotAMapping,
       competitions |-> << [competitors |->
            << Competitor("LAL", [str |-> <<49>>], "home"),
               Competitor("BOS", [str |-> <<50>>], "away") >>] >>],
      \* an empty team name
      [id |-> "408",
       competitions |-> << [competitors |->
            << Competitor("LAL", [str |-> <<50>>], "home"),
               Competitor("", [str |-> <<51>>], "away") >>] >>],
      \* an event that is not a mapping
      NotAMapping,
      \* a competitor without a homeAway flag, listed first; no score; the
      \* digits of the other score grouped by an underscore, "2_1"; the date
      \* a week date, "2024-W01-5" (Friday 2024-01-05)
      [id |-> "409", date |-> [str |-> <<50, 48, 50, 52, 45, 87, 48, 49, 45, 53>>],
       competitions |-> << [competitors |->
            << [team |-> [displayName |-> "GB"]],
               Competitor("KC", [str |-> <<50, 95, 49>>], "home") >>] >>],
      \* the same team on both sides; the date an ordinal date,
      \* "2024-005T19:00:00Z" (day 5 of 2024)
      [id |-> "410",
       date |-> [str |-> <<50, 48, 50, 52, 45, 48, 48, 53, 84,
                           49, 57, 58, 48, 48, 58, 48, 48, 90>>],
       competitions |-> << [competitors |->
            << Competitor("LAL", [str |-> <<49, 48, 48>>], "home"),
               Competitor("LAL", [str |-> <<57, 48>>], "away") >>] >>],
      \* a float score, 7.9, against a score in Arabic-Indic digits (34); the
      \* date in the year 999, "0999-01-05T00:00Z"
      [id |-> "411",
       date |-> [str |-> <<48, 57, 57, 57, 45, 48, 49, 45, 48, 53, 84,
                           48, 48, 58, 48, 48, 90>>],
       competitions |-> << [competitors |->
            << Competitor("GB", FloatOf(<<79, 10>>), "home"),
               Competitor("NE", [str |-> <<1635, 1636>>], "away") >>] >>],
      \* a score that is None; a date that is no string
      [id |-> "412", date |-> [int |-> 20240105],
       competitions |-> << [competitors |->
            << Competitor("LAL", None, "home"),
               Competitor("BOS", [str |-> <<49>>], "away") >>] >>],
      \* midnight written as hour 24, "2024-01-05T24:00:00Z"; a score True
      [id |-> "413",
       date |-> [str |-> <<50, 48, 50, 52, 45, 48, 49, 45, 48, 53, 84,
                           50, 52, 58, 48, 48, 58, 48, 48, 90>>],
       competitions |-> << [competitors |->
            << Competitor("BOS", [bool |-> TRUE], "home"),
               Competitor("GSW", [int |-> 0], "away") >>] >>] }

\* The days on which the events are processed.
ProcessingDays == {<<2024, 1, 7>>, <<2024, 1, 8>>}

\* The event reads the clock: it is a mapping whose date is not parsed.
ReadsClock(game) ==
    IsMapping(game) /\ ParsedDate(game) = <<>>

\* The readings of datetime.now() while the events are processed, one per
\* event: time does not go back, and an event that does not read the clock
\* has the reading of the event before it.
Clock(events) ==
    {now \in [1 .. Len(events) -> ProcessingDays] :
        \A i \in 1 .. Len(events) :
            LET before == IF i = 1 THEN <<2024, 1, 7>> ELSE now[i - 1]
            IN  /\ ymd_to_ord(before[1], before[2], before[3])
                      <= ymd_to_ord(now[i][1], now[i][2], now[i][3])
                /\ ~ReadsClock(events[i]) => now[i] = before}

\* A row of a table; the date is a text.
Row(game_id, home_team, away_team, date, home_score, away_score, home_team_result) ==
    [game_id |-> game_id, home_team |-> home_team, away_team |-> away_team,
     date |-> [str |-> date], home_score |-> [int |-> home_score],
     away_score |-> [int |-> away_score], home_team_result |-> home_team_result]

RowPool ==
    { Row("g1", "LAL", "BOS", strftime(<<2024, 1, 5>>), 110, 102, "Win"),
      \* the same game_id again
      Row("g1", "BOS", "LAL", strftime(<<2024, 1, 6>>), 95, 101, "Loss"),
      \* home_team missing
      [game_id |-> "g2", away_team |-> "BOS", date |-> [str |-> strftime(<<2024, 1, 5>>)],
       home_score |-> [int |-> 1], away_score |-> [int |-> 2],
       home_team_result |-> "Loss"],
      \* a valid row with the game_id of the row without home_team
      Row("g2", "GSW", "LAL", strftime(<<2024, 1, 6>>), 99, 99, "Tie"),
      \* a negative score
      Row("g3", "LAL", "GSW", strftime(<<2024, 1, 5>>), -1, 5, "Loss"),
      \* date missing
      [game_id |-> "g4", home_team |-> "BOS", away_team |-> "GSW",
       home_score |-> [int |-> 3], away_score |-> [int |-> 2],
       home_team_result |-> "Win"],
      \* a date that is not a date, "TBD"; scores that are no integers, 7.5
      \* and 8.25
      [game_id |-> "g5", home_team |-> "BOS", away_team |-> "LAL",
       date |-> [str |-> <<84, 66, 68>>],
       home_score |-> FloatOf(<<15, 2>>), away_score |-> FloatOf(<<33, 4>>),
       home_team_result |-> "Loss"],
      \* no points at all, the same team on both sides
      Row("g6", "LAL", "LAL", strftime(<<2024, 1, 6>>), 0, 0, "Tie"),
      \* away_team missing; a Timestamp as date
      [game_id |-> "g7", home_team |-> "LAL", date |-> [timestamp |-> <<2024, 1, 5>>],
       home_score |-> [int |-> 4], away_score |-> [int |-> 0],
       home_team_result |-> "Win"],
      \* an empty date
      Row("g8", "GSW", "BOS", <<>>, 2, 1, "Win"),
      \* home_score missing
      [game_id |-> "g9", home_team |-> "GSW", away_team |-> "LAL",
       date |-> [str |-> strftime(<<2024, 1, 6>>)],
       away_score |-> [int |-> 3], home_team_result |-> "Tie"],
      \* game_id missing; a float score, 2.5
      [home_team |-> "BOS", away_team |-> "GSW",
       date |-> [str |-> strftime(<<2024, 1, 5>>)],
       home_score |-> FloatOf(<<5, 2>>), away_score |-> [int |-> 1],
       home_team_result |-> "Win"],
      \* a date of the year 999, "999-01-05"
      Row("g10", "LAL", "GSW", <<57, 57, 57, 45, 48, 49, 45, 48, 53>>, 5, 4, "Win") }

\* The columns of a table of game records that clean_data and
\* aggregate_team_stats read.
GameColumns ==
    {"game_id", "home_team", "away_team", "date", "home_score", "away_score",
     "home_team_result"}

\* The teams statistics are asked for.
TeamPool ==
    {"LAL", "BOS", "GSW", "Los Angeles Lakers", "Boston Celtics", "Nobody"}

\* The version-dependent date cells of a table, and the ways a pandas may
\* read them.
Readings(table) ==
    [{table.rows[i].date : i \in {j \in 1 .. Len(table.rows) :
          "date" \in DOMAIN table.rows[j] /\ IsVersionDependent(table.rows[j].date)}}
        -> {"raise", "parse"}]

\* A further raw event.
AddEvent ==
    /\ op = "none"
    /\ NoFeed
    /\ df = EmptyFrame
    /\ Len(raw_data) < MaxEvents
    /\ \E game \in EventPool : raw_data' = Append(raw_data, game)
    /\ UNCHANGED <<op, args, result, raised, odds_data, added, df>>

\* A further row of a table that does not come from normalize_game_data:
\* pd.DataFrame(rows), or pd.DataFrame(rows, columns=GameColumns), whose
\* columns exist whatever the rows hold.
AddRow ==
    /\ op = "none"
    /\ NoFeed
    /\ raw_data = <<>>
    /\ Len(df.rows) < MaxRows
    /\ \E row \in RowPool, columns \in {{}, GameColumns} :
          /\ columns = {} \/ df = EmptyFrame
          /\ df' = [DataFrame(Append(df.rows, row)) EXCEPT
                       !.columns = @ \cup df.columns \cup columns]
    /\ UNCHANGED <<op, args, result, raised, odds_data, added, raw_data>>

CallNormalizeGameData ==
    /\ op = "none"
    /\ NoFeed
    /\ df = EmptyFrame
    /\ UNCHANGED <<raised, odds_data, added, raw_data>>
    /\ \E sport \in Sports, now \in Clock(raw_data) :
        /\ op' = "normalize_game_data"
        /\ args' = [sport |-> sport, now |-> now]
        /\ df' = normalize_game_data(raw_data, sport, now)
        /\ result' = df'

\* clean_data of the table at hand: a normalized one, a cleaned one, or one
\* put together row by row.
CallCleanData ==
    /\ \/ op = "none" /\ raw_data = <<>>
       \/ op \in {"normalize_game_data", "clean_data"}
    /\ NoFeed
    /\ UNCHANGED <<raised, odds_data, added, raw_data>>
    /\ \E pd \in Readings(df) :
        /\ op' = "clean_data"
        /\ args' = [df |-> df, pd |-> pd]
        /\ df' = clean_data(df, pd)
        /\ result' = clean_data(df, pd)

CallAggregateTeamStats ==
    /\ \/ op = "none" /\ raw_data = <<>>
       \/ op \in {"normalize_game_data", "clean_data"}
    /\ NoFeed
    /\ UNCHANGED <<raised, odds_data, added, raw_data, df>>
    /\ \E team_name \in TeamPool :
        /\ op' = "aggregate_team_stats"
        /\ args' = [team_name |-> team_name]
        /\ result' = aggregate_team_stats(df, team_name)

NextData ==
    \/ AddEvent
    \/ AddRow
    \/ CallNormalizeGameData
    \/ CallCleanData
    \/ CallAggregateTeamStats

SpecData == Init /\ [][NextData]_vars

(***************************************************************************)
(* Properties of the data processor (specification SpecData).              *)
(***************************************************************************)
\* The k-th smallest element of a set of indices.
KthOf(indices, k) ==
    CHOOSE i \in indices : Cardinality({j \in indices : j <= i}) = k

AggregateCalled == op = "aggregate_team_stats" /\ result # EmptyMapping

\* The team is the home side / the away side of row i of the table.
AsHome(i) == CellIs(df.rows[i], "home_team", args.team_name)

AsAway(i) == CellIs(df.rows[i], "away_team", args.team_name)

\* The number a score cell or a total holds, as a rational.
ValueOf(number) == IF "int" \in DOMAIN number THEN RInt(number.int) ELSE number.v

\* In the row the score of one side exceeds the score of the other (never
\* so when one of them is missing).
Outscores(row, side, other) ==
    /\ {side, other} \subseteq DOMAIN row
    /\ RLt(ValueOf(row[other]), ValueOf(row[side]))

\* C15: aggregate_team_stats attributes results by perspective.  A game won
\* by the home side (home_team_result = "Win", home_score > away_score) is a
\* win of its home team and a loss of its away team; a game lost by the home
\* side is a loss of the home team and a win of the away team; a tie is
\* neither a win nor a loss.
C15_ResultsByPerspective ==
    AggregateCalled =>
        LET games == {i \in 1 .. Len(df.rows) : AsHome(i) \/ AsAway(i)}
            homeWon(i) == CellIs(df.rows[i], "home_team_result", "Win")
            homeLost(i) == CellIs(df.rows[i], "home_team_result", "Loss")
        IN  /\ result.wins =
                  Cardinality({i \in games : (AsHome(i) /\ homeWon(i)) \/ (AsAway(i) /\ homeLost(i))})
            /\ result.losses =
                  Cardinality({i \in games : (AsHome(i) /\ homeLost(i)) \/ (AsAway(i) /\ homeWon(i))})
            /\ result.wins =
                  Cardinality({i \in games :
                      \/ AsHome(i) /\ Outscores(df.rows[i], "home_score", "away_score")
                      \/ AsAway(i) /\ Outscores(df.rows[i], "away_score", "home_score")})
            /\ result.losses =
                  Cardinality({i \in games :
                      \/ AsHome(i) /\ Outscores(df.rows[i], "away_score", "home_score")
                      \/ AsAway(i) /\ Outscores(df.rows[i], "home_score", "away_score")})
            /\ \A i \in games :
                  CellIs(df.rows[i], "home_team_result", "Tie") =>
                      LET others == [j \in 1 .. (Len(df.rows) - 1) |->
                                        IF j < i THEN df.rows[j] ELSE df.rows[j + 1]]
                          without == aggregate_team_stats([df EXCEPT !.rows = others],
                                                          args.team_name)
                      IN  without # EmptyMapping =>
                              /\ without.wins = result.wins
                              /\ without.losses = result.losses

\* C15 witness: a team with a tie at home, a win as the away side of a game
\* the home side lost and a loss as the away side of a game the home side
\* won.
C15_Witness ==
    /\ AggregateCalled
    /\ result.total_games = 3
    /\ result.wins = 1
    /\ result.losses = 1
    /\ \E i \in 1 .. Len(df.rows) : AsAway(i) /\ df.rows[i].home_team_result = "Win"
    /\ \E i \in 1 .. Len(df.rows) : AsAway(i) /\ df.rows[i].home_team_result = "Loss"
    /\ \E i \in 1 .. Len(df.rows) : AsHome(i) /\ df.rows[i].home_team_result = "Tie"

CleanCalled == op = "clean_data"

\* A record with a home_team, an away_team, a date and scores that are not
\* negative.
ValidRow(row) ==
    /\ {"home_team", "away_team", "date", "home_score", "away_score"} \subseteq DOMAIN row
    /\ RLe(RInt(0), ValueOf(row.home_score))
    /\ RLe(RInt(0), ValueOf(row.away_score))

\* Two records have the same game_id (or both have none).
SameGame(row, other) ==
    IF "game_id" \in DOMAIN row
    THEN "game_id" \in DOMAIN other /\ other.game_id = row.game_id
    ELSE "game_id" \notin DOMAIN other

\* Record i is the first one of its game_id.
FirstOccurrence(rows, i) == ~\E j \in 1 .. (i - 1) : SameGame(rows[j], rows[i])

\* What identifies a record whatever the types of its date and its scores.
Identity(row) ==
    [f \in DOMAIN row \cap {"game_id", "home_team", "away_team"} |-> row[f]]

\* C16: clean_data retains a record iff it is the first occurrence of its
\* game_id in the input and has a home_team, an away_team, a date and
\* non-negative scores; the retained records keep their input order, no two
\* output records share a game_id, and when no record is otherwise invalid
\* the output length is the input length minus the number of duplicates.
\* The code does not have this property on a table without one of the
\* columns.
C16_FirstValidOccurrenceRetained ==
    CleanCalled =>
        LET input == args.df.rows
            retained == {i \in 1 .. Len(input) :
                            FirstOccurrence(input, i) /\ ValidRow(input[i])}
            duplicates == Cardinality({i \in 1 .. Len(input) : ~FirstOccurrence(input, i)})
        IN  /\ Len(df.rows) = Cardinality(retained)
            /\ \A k \in 1 .. Len(df.rows) :
                  Identity(df.rows[k]) = Identity(input[KthOf(retained, k)])
            /\ \A k, l \in 1 .. Len(df.rows) : SameGame(df.rows[k], df.rows[l]) => k = l
            /\ (\A i \in 1 .. Len(input) : ValidRow(input[i]))
                  => Len(df.rows) = Len(input) - duplicates

\* C16, the failing case reached: a table of one record without a date (the
\* table has no date column) is cleaned, and the record is returned.
C16_UndatedRecordRetained ==
    /\ CleanCalled
    /\ "date" \notin args.df.columns
    /\ Len(args.df.rows) = 1
    /\ ~ValidRow(args.df.rows[1])
    /\ Len(df.rows) = 1
    /\ df.rows[1] = args.df.rows[1]
    /\ "date" \notin DOMAIN df.rows[1]

\* C17: every record in the output of clean_data has a home_team, an
\* away_team and a date, and integer scores >= 0; every input record that
\* misses one of those fields or carries a negative score is dropped.  The
\* code does not have this property: the types are converted after the
\* filters, in one try, and the date first.
C17_CleanRecordsAreValid ==
    CleanCalled =>
        /\ \A k \in 1 .. Len(df.rows) :
              /\ {"home_team", "away_team", "date", "home_score", "away_score"}
                    \subseteq DOMAIN df.rows[k]
              /\ "int" \in DOMAIN df.rows[k].home_score
              /\ "int" \in DOMAIN df.rows[k].away_score
              /\ df.rows[k].home_score.int >= 0
              /\ df.rows[k].away_score.int >= 0
        /\ \A i \in 1 .. Len(args.df.rows) :
              ~ValidRow(args.df.rows[i]) =>
                  \A k \in 1 .. Len(df.rows) :
                      Identity(df.rows[k]) # Identity(args.df.rows[i])

\* C17, the failing case reached: a table with every column holds one
\* record, dated "TBD", with the scores 7.5 and 8.25; it comes out of
\* clean_data with these scores.
C17_FractionalScoresReturned ==
    /\ CleanCalled
    /\ GameColumns \subseteq args.df.columns
    /\ Len(args.df.rows) = 1
    /\ GameColumns \subseteq DOMAIN args.df.rows[1]
    /\ args.df.rows[1].date = [str |-> <<84, 66, 68>>]
    /\ Len(df.rows) = 1
    /\ df.rows[1].home_score = FloatOf(<<15, 2>>)
    /\ df.rows[1].away_score = FloatOf(<<33, 4>>)

NormalizeCalled == op = "normalize_game_data"

\* The competitors of an event: those of its first competition.
CompetitorsOf(game) ==
    IF /\ IsMapping(game)
       /\ "competitions" \in DOMAIN game
       /\ game.competitions # <<>>
       /\ IsMapping(game.competitions[1])
    THEN Get(game.competitions[1], "competitors", <<>>)
    ELSE <<>>

FlaggedHome(game) ==
    {i \in 1 .. Len(CompetitorsOf(game)) :
        /\ IsMapping(CompetitorsOf(game)[i])
        /\ Get(CompetitorsOf(game)[i], "homeAway", "<None>") = "home"}

NotFlaggedHome(game) == (1 .. Len(CompetitorsOf(game))) \ FlaggedHome(game)

\* The name an event gives to a side: the mapped display name of the last
\* competitor of that side, "" when there is none.
SideName(game, side, sport) ==
    IF side = {} THEN ""
    ELSE LET competitor == CompetitorsOf(game)[CHOOSE i \in side : \A j \in side : j <= i]
             name == Get(Get(competitor, "team", EmptyMapping), "displayName", "")
         IN  IF name \in DOMAIN team_name_mappings(sport)
             THEN team_name_mappings(sport)[name]
             ELSE name

\* A numeral: white space, an optional sign, decimal digits in groups
\* joined by single underscores, white space.  The text is read from
\* character i on; part tells what has been read: "space" (leading white
\* space), "sign", "digit", "underscore", "end" (trailing white space).
RECURSIVE IsNumeralFrom(_, _, _)
IsNumeralFrom(text, i, part) ==
    IF i > Len(text) THEN part \in {"digit", "end"}
    ELSE IF ToDecimal(text[i]) >= 0
    THEN part # "end" /\ IsNumeralFrom(text, i + 1, "digit")
    ELSE IF text[i] = 95
    THEN part = "digit" /\ IsNumeralFrom(text, i + 1, "underscore")
    ELSE IF text[i] \in {43, 45}
    THEN part = "space" /\ IsNumeralFrom(text, i + 1, "sign")
    ELSE IF text[i] \in WhiteSpace
    THEN \/ part = "space" /\ IsNumeralFrom(text, i + 1, "space")
         \/ part \in {"digit", "end"} /\ IsNumeralFrom(text, i + 1, "end")
    ELSE FALSE

\* 10 to the power n.
RECURSIVE PowerOfTen(_)
PowerOfTen(n) == IF n = 0 THEN 1 ELSE 10 * PowerOfTen(n - 1)

\* The integer a numeral denotes: every digit weighs 10 to the number of
\* digits after it; a minus sign negates.
NumeralValue(text) ==
    LET digits == {i \in 1 .. Len(text) : ToDecimal(text[i]) >= 0}
        weigh[places \in SUBSET digits] ==
            IF places = {} THEN 0
            ELSE LET i == CHOOSE j \in places : \A k \in places : j <= k
                 IN  ToDecimal(text[i]) * PowerOfTen(Cardinality(places) - 1)
                         + weigh[places \ {i}]
    IN  IF \E i \in 1 .. Len(text) : text[i] = 45 THEN -weigh[digits] ELSE weigh[digits]

\* A score the feed may give: a number, or a numeral of at most MaxStrDigits
\* digits.
IsScore(score) ==
    \/ DOMAIN score \cap {"int", "v", "bool"} # {}
    \/ /\ "str" \in DOMAIN score
       /\ IsNumeralFrom(score.str, 1, "space")
       /\ Cardinality({i \in 1 .. Len(score.str) : ToDecimal(score.str[i]) >= 0})
             <= MaxStrDigits

\* The integer of a score: a float loses its fraction.
ScoreValue(score) ==
    IF "int" \in DOMAIN score THEN score.int
    ELSE IF "bool" \in DOMAIN score THEN (IF score.bool THEN 1 ELSE 0)
    ELSE IF "v" \in DOMAIN score
    THEN CHOOSE n \in -Abs(score.v[1]) .. Abs(score.v[1]) :
             /\ Abs(n) * score.v[2] <= Abs(score.v[1])
             /\ (Abs(n) + 1) * score.v[2] > Abs(score.v[1])
             /\ n * score.v[1] >= 0
    ELSE NumeralValue(score.str)

\* A status, if given, is a mapping whose type, if given, is a mapping.
StatusIsSound(x) ==
    "status" \in DOMAIN x =>
        /\ IsMapping(x.status)
        /\ "type" \in DOMAIN x.status => IsMapping(x.status.type)

\* The event is well formed: a mapping with a sound status whose first
\* competition, if any, is a mapping with a sound status, every competitor
\* of which is a mapping with a team that is a mapping and a score.
WellFormed(game) ==
    /\ IsMapping(game)
    /\ StatusIsSound(game)
    /\ ("competitions" \in DOMAIN game /\ game.competitions # <<>>) =>
          /\ IsMapping(game.competitions[1])
          /\ StatusIsSound(game.competitions[1])
          /\ \A i \in 1 .. Len(CompetitorsOf(game)) :
                LET competitor == CompetitorsOf(game)[i]
                IN  /\ IsMapping(competitor)
                    /\ "team" \in DOMAIN competitor => IsMapping(competitor.team)
                    /\ "score" \in DOMAIN competitor => IsScore(competitor.score)

\* The event is well formed and names both sides.
Resolves(game, sport) ==
    /\ WellFormed(game)
    /\ SideName(game, FlaggedHome(game), sport) # ""
    /\ SideName(game, NotFlaggedHome(game), sport) # ""

Resolving == {i \in 1 .. Len(raw_data) : Resolves(raw_data[i], args.sport)}

\* C18: normalize_game_data returns, in input order, exactly one record for
\* each raw event that resolves a non-empty home_team and a non-empty
\* away_team, and none for any other event: a malformed event is skipped
\* without an effect on the events before or after it.
C18_OneRecordPerResolvingEvent ==
    NormalizeCalled =>
        /\ Len(df.rows) = Cardinality(Resolving)
        /\ \A k \in 1 .. Len(df.rows) :
              LET game == raw_data[KthOf(Resolving, k)]
              IN  /\ df.rows[k].game_id = Get(game, "id", "")
                  /\ df.rows[k].sport = args.sport
                  /\ df.rows[k].home_team = SideName(game, FlaggedHome(game), args.sport)
                  /\ df.rows[k].away_team = SideName(game, NotFlaggedHome(game), args.sport)
                  /\ df.rows[k].home_team # ""
                  /\ df.rows[k].away_team # ""

\* C18 witness: three events, the second one malformed (not a mapping, or a
\* score that is not a number, or a status that is not a mapping), the
\* first and the third emitted.
C18_Witness ==
    /\ NormalizeCalled
    /\ Len(raw_data) = 3
    /\ ~WellFormed(raw_data[2])
    /\ Resolving = {1, 3}
    /\ Len(df.rows) = 2
    /\ df.rows[1].game_id = raw_data[1].id
    /\ df.rows[2].game_id = raw_data[3].id

\* The events with exactly two competitors, one flagged home, one away.
IsHomeAwayPair(game) ==
    /\ WellFormed(game)
    /\ Len(CompetitorsOf(game)) = 2
    /\ \E h, a \in 1 .. 2 :
          /\ h # a
          /\ Get(CompetitorsOf(game)[h], "homeAway", "<None>") = "home"
          /\ Get(CompetitorsOf(game)[a], "homeAway", "<None>") = "away"

\* C19: for an event with two competitors flagged home and away, the record
\* has as home_team / home_score the mapped display name (unmapped names
\* unchanged) and the score of the competitor flagged home, and as
\* away_team / away_score those of the competitor flagged away, in whichever
\* order they are listed.
C19_ClassifiedByFlag ==
    NormalizeCalled =>
        \A k \in 1 .. Len(df.rows) :
            LET game == raw_data[KthOf(Resolving, k)]
                competitors == CompetitorsOf(game)
                h == CHOOSE i \in 1 .. 2 : Get(competitors[i], "homeAway", "<None>") = "home"
                a == 3 - h
                name(i) == Get(Get(competitors[i], "team", EmptyMapping), "displayName", "")
                mapped(n) == IF n \in DOMAIN team_name_mappings(args.sport)
                             THEN team_name_mappings(args.sport)[n] ELSE n
                score(i) == IF "score" \in DOMAIN competitors[i]
                            THEN ScoreValue(competitors[i].score) ELSE 0
            IN  IsHomeAwayPair(game) =>
                    /\ df.rows[k].home_team = mapped(name(h))
                    /\ df.rows[k].away_team = mapped(name(a))
                    /\ df.rows[k].home_score = [int |-> score(h)]
                    /\ df.rows[k].away_score = [int |-> score(a)]

\* C19 witness: basketball, the away side listed first: Golden State (GSW,
\* mapped) 99 at Chicago Bulls (unmapped) 99, the scores given as numerals
\* with white space around them.
C19_Witness ==
    /\ NormalizeCalled
    /\ args.sport = "nba"
    /\ \E k \in 1 .. Len(df.rows) :
          LET competitors == CompetitorsOf(raw_data[KthOf(Resolving, k)])
          IN  /\ Get(competitors[1], "homeAway", "<None>") = "away"
              /\ competitors[1].score = [str |-> <<11, 57, 57>>]
              /\ competitors[2].score = [str |-> <<57, 57, 133>>]
              /\ df.rows[k].home_team = "Chicago Bulls"
              /\ df.rows[k].away_team = "Golden State Warriors"
              /\ df.rows[k].home_score = [int |-> 99]
              /\ df.rows[k].away_score = [int |-> 99]

\* C20: every record of normalize_game_data has total_score = home_score +
\* away_score and score_differential = home_score - away_score; winner is
\* home_team, away_team or "Tie" and home_team_result "Win", "Loss" or "Tie"
\* as home_score is greater than, less than or equal to away_score.
C20_DerivedColumns ==
    NormalizeCalled =>
        \A k \in 1 .. Len(df.rows) :
            LET row == df.rows[k]
            IN  /\ row.total_score = [int |-> row.home_score.int + row.away_score.int]
                /\ row.score_differential = [int |-> row.home_score.int - row.away_score.int]
                /\ row.home_score.int > row.away_score.int =>
                      row.winner = row.home_team /\ row.home_team_result = "Win"
                /\ row.away_score.int > row.home_score.int =>
                      row.winner = row.away_team /\ row.home_team_result = "Loss"
                /\ row.home_score.int = row.away_score.int =>
                      row.winner = "Tie" /\ row.home_team_result = "Tie"

\* C20 witness: a table with a home win (110-102), a home loss (95-101) and
\* a tie.
C20_Witness ==
    /\ NormalizeCalled
    /\ Len(df.rows) = 3
    /\ \E k \in 1 .. 3 : /\ df.rows[k].home_team_result = "Win"
                         /\ df.rows[k].total_score = [int |-> 212]
                         /\ df.rows[k].score_differential = [int |-> 8]
    /\ \E k \in 1 .. 3 : /\ df.rows[k].home_team_result = "Loss"
                         /\ df.rows[k].score_differential = [int |-> -6]
                         /\ df.rows[k].winner = df.rows[k].away_team
    /\ \E k \in 1 .. 3 : df.rows[k].home_team_result = "Tie" /\ df.rows[k].winner = "Tie"

(***************************************************************************)
(* One event with any pair of scores (specification SpecFlags).            *)
(***************************************************************************)
\* Each side scores at most MaxScore points.
MaxScore == 112

\* A raw event of two unmapped teams with the given scores, dated
\* "2024-01-05T19:00:00Z".
ScoredEvent(home_score, away_score) ==
    [id |-> "500",
     date |-> [str |-> <<50, 48, 50, 52, 45, 48, 49, 45, 48, 53, 84,
                         49, 57, 58, 48, 48, 58, 48, 48, 90>>],
     competitions |-> << [competitors |->
          << Competitor("Home Club", [int |-> home_score], "home"),
             Competitor("Away Club", [int |-> away_score], "away") >>] >>]

\* The feed holds one event with some pair of scores.
AddScoredEvent ==
    /\ op = "none"
    /\ df = EmptyFrame
    /\ raw_data = <<>>
    /\ \E home_score, away_score \in 0 .. MaxScore :
          raw_data' = <<ScoredEvent(home_score, away_score)>>
    /\ UNCHANGED <<op, args, result, raised, odds_data, added, df>>

NextFlags ==
    \/ AddScoredEvent
    \/ CallNormalizeGameData

SpecFlags == Init /\ [][NextFlags]_vars

\* C21: the sport-specific flags have these exact boundaries.  mlb:
\* is_high_scoring iff total_score > 9, is_low_scoring iff total_score < 7.
\* nfl: is_high_scoring iff total_score > 45, is_low_scoring iff total_score
\* < 35, is_blowout iff |score_differential| > 14.  nba: is_high_scoring iff
\* total_score > 220, is_low_scoring iff total_score < 200, is_close_game iff
\* |score_differential| <= 5.  No record is both high and low scoring.
C21_FlagThresholds ==
    NormalizeCalled =>
        \A k \in 1 .. Len(df.rows) :
            LET row == df.rows[k]
                home == ScoreValue(CompetitorsOf(raw_data[k])[1].score)
                away == ScoreValue(CompetitorsOf(raw_data[k])[2].score)
                total == home + away
                margin == IF home >= away THEN home - away ELSE away - home
            IN  /\ row.total_score = [int |-> total]
                /\ Abs(row.score_differential.int) = margin
                /\ args.sport = "mlb" =>
                      /\ row.is_high_scoring = (total >= 10)
                      /\ row.is_low_scoring = (total <= 6)
                /\ args.sport = "nfl" =>
                      /\ row.is_high_scoring = (total >= 46)
                      /\ row.is_low_scoring = (total <= 34)
                      /\ row.is_blowout = (margin >= 15)
                /\ args.sport = "nba" =>
                      /\ row.is_high_scoring = (total >= 221)
                      /\ row.is_low_scoring = (total <= 199)
                      /\ row.is_close_game = (margin < 6)
                /\ args.sport \in {"mlb", "nfl", "nba"} =>
                      ~(row.is_high_scoring /\ row.is_low_scoring)
                /\ args.sport \notin {"mlb", "nfl", "nba"} =>
                      DOMAIN row \cap {"is_high_scoring", "is_low_scoring",
                                       "is_blowout", "is_close_game"} = {}

\* C21 witness: a football game that ends 30-16: 46 points are high scoring,
\* a margin of 14 is not a blowout.
C21_Witness ==
    /\ NormalizeCalled
    /\ args.sport = "nfl"
    /\ Len(df.rows) = 1
    /\ df.rows[1].total_score = [int |-> 46]
    /\ df.rows[1].score_differential = [int |-> 14]
    /\ df.rows[1].is_high_scoring
    /\ ~df.rows[1].is_low_scoring
    /\ ~df.rows[1].is_blowout

(***************************************************************************)
(* Further properties of the data processor (specification SpecData).      *)
(***************************************************************************)
\* The sum of a sequence of rationals.
RECURSIVE RSum(_)
RSum(rationals) ==
    IF rationals = <<>> THEN RInt(0)
    ELSE RAdd(Head(rationals), RSum(Tail(rationals)))

\* The column that holds the points of the team (own = TRUE) or of its
\* opponent (own = FALSE) in row i of the table; a row with the team on both
\* sides is read from the home side.
PointsColumn(i, own) == IF AsHome(i) = own THEN "home_score" ELSE "away_score"

\* The total a summary must report for the games of the team: NaN when one
\* of the scores is missing, their sum otherwise.
TotalIs(total, games, own) ==
    IF \E i \in games : PointsColumn(i, own) \notin DOMAIN df.rows[i]
    THEN total = NaN
    ELSE /\ "nan" \notin DOMAIN total
         /\ ValueOf(total) =
                RSum([k \in 1 .. Cardinality(games) |->
                         ValueOf(df.rows[KthOf(games, k)][PointsColumn(KthOf(games, k), own)])])

\* C22: for a team with at least one game, aggregate_team_stats reports
\* total_games = number of records where the team is home or away,
\* win_percentage = wins / total_games, total_points_scored = sum of the
\* team's own score (home_score when home, away_score when away),
\* total_points_allowed = sum of the opponent's score, point_differential =
\* scored - allowed; records without the team contribute nothing.
C22_TotalsOfTheTeam ==
    AggregateCalled =>
        LET games == {i \in 1 .. Len(df.rows) : AsHome(i) \/ AsAway(i)}
            scored == result.total_points_scored
            allowed == result.total_points_allowed
        IN  /\ games # {}
            /\ result.total_games = Cardinality(games)
            /\ result.win_percentage.v[2] > 0
            /\ result.win_percentage.v[1] * result.total_games
                  = result.wins * result.win_percentage.v[2]
            /\ TotalIs(scored, games, TRUE)
            /\ TotalIs(allowed, games, FALSE)
            /\ IF "nan" \in DOMAIN scored \/ "nan" \in DOMAIN allowed
               THEN result.point_differential = NaN
               ELSE ValueOf(result.point_differential)
                        = RSub(ValueOf(scored), ValueOf(allowed))
            /\ result = aggregate_team_stats(
                            [df EXCEPT !.rows = RowsAt(df.rows, games, 1)], args.team_name)

\* C22 witness: LAL wins 110-102 at home and ties 99-99 away; a third game
\* is played by other teams.
C22_Witness ==
    /\ AggregateCalled
    /\ args.team_name = "LAL"
    /\ Len(df.rows) = 3
    /\ result.total_games = 2
    /\ result.wins = 1
    /\ result.win_percentage.v = <<1, 2>>
    /\ result.total_points_scored = [int |-> 209]
    /\ result.total_points_allowed = [int |-> 201]
    /\ result.point_differential = [int |-> 8]
    /\ \E i \in 1 .. 3 : ~AsHome(i) /\ ~AsAway(i)

(***************************************************************************)
(* EVCalculator.calculate_portfolio_risk (specification SpecRisk).  A bet  *)
(* is a mapping with the optional fields amount, expected_value and        *)
(* predicted_probability (floats).  A sum of floats whose real value is 0  *)
(* and whose terms are not exact is a double that carries the residue of   *)
(* the additions: it may be below, at or above 0.0, and rd tells which.    *)
(***************************************************************************)
\* bet.get("amount", 0), bet.get("expected_value", 0) and
\* bet.get("predicted_probability", 0.5)
BetAmount(bet) == Get(bet, "amount", FInt(0))

BetExpectedValue(bet) == Get(bet, "expected_value", FInt(0))

BetProbability(bet) == Get(bet, "predicted_probability", FloatOf(<<1, 2>>))

\* sum(values): the additions from 0, left to right.
RECURSIVE sum(_)
sum(values) ==
    IF values = <<>> THEN FInt(0)
    ELSE FAdd(sum(SubSeq(values, 1, Len(values) - 1)), values[Len(values)])

\* Mutant: the variance term without the complement of the probability.
BetVariance_uncomplemented(bet) ==
    FMul(FMul(BetAmount(bet), BetAmount(bet)), BetProbability(bet))

\* Lines 384-385: amount ** 2 * (p * (1 - p)) of one bet.  A product whose
\* value is 0 has a factor that is 0.0 (an amount of 0, p = 0, or 1 - p with
\* p = 1.0): the product is 0.0.
BetVariance(bet) ==
    LET product == FMul(FMul(BetAmount(bet), BetAmount(bet)),
                        FMul(BetProbability(bet), FSub(FInt(1), BetProbability(bet))))
    IN  IF product.v = RInt(0) THEN FInt(0) ELSE product

\* Line 382: None, or a correlation matrix.
NoCorrelation == [none |-> TRUE]

CorrelationMatrix == [matrix |-> TRUE]

\* Lines 382-390: the variance of the portfolio.
PortfolioVariance(bets, correlation_matrix) ==
    IF correlation_matrix = NoCorrelation
    THEN sum([i \in 1 .. Len(bets) |-> BetVariance(bets[i])])
    ELSE FInt(0)

\* The try block raises: bet.get on an entry that is not a mapping, or
\* math.sqrt of a variance whose double is negative.
calculate_portfolio_risk_raises(bets, correlation_matrix, rd) ==
    \/ \E i \in 1 .. Len(bets) : ~IsMapping(bets[i])
    \/ FLt(PortfolioVariance(bets, correlation_matrix), FInt(0), rd.variance)

\* A double the model does not determine: the quotient by the residue of a
\* sum.
Undetermined == [undetermined |-> TRUE]

\* Line 397: (total_expected_value / total_bet_amount * 100) if
\* total_bet_amount > 0 else 0.  When the total is the residue of a sum and
\* above 0.0, the quotient is 0.0 for an expected value of 0.0 and not
\* determined otherwise.
portfolio_ev_percentage(total_expected_value, total_bet_amount, rd) ==
    IF FCmp(total_bet_amount, FInt(0), rd.total) > 0
    THEN IF total_bet_amount.v # RInt(0)
         THEN FMul(FDiv(total_expected_value, total_bet_amount), FInt(100))
         ELSE IF total_expected_value = FInt(0) THEN FInt(0)
         ELSE Undetermined
    ELSE FInt(0)

\* Mutant: no early return for an empty list: a summary of zeros.
calculate_portfolio_risk_zeroed(bets, correlation_matrix, rd) ==
    IF calculate_portfolio_risk_raises(bets, correlation_matrix, rd) THEN EmptyMapping
    ELSE LET total_bet_amount == sum([i \in 1 .. Len(bets) |-> BetAmount(bets[i])])
             total_expected_value ==
                 sum([i \in 1 .. Len(bets) |-> BetExpectedValue(bets[i])])
             portfolio_variance == PortfolioVariance(bets, correlation_matrix)
         IN  [total_bet_amount |-> total_bet_amount,
              total_expected_value |-> total_expected_value,
              portfolio_ev_percentage |->
                  portfolio_ev_percentage(total_expected_value, total_bet_amount, rd),
              portfolio_variance |-> portfolio_variance,
              portfolio_std_deviation |-> [sqrt |-> portfolio_variance],
              number_of_bets |-> Len(bets),
              average_bet_size |-> IF bets # <<>>
                                   THEN FDiv(total_bet_amount, FInt(Len(bets)))
                                   ELSE FInt(0)]

\* EVCalculator.calculate_portfolio_risk: {} for an empty list and when the
\* try block raises.  math.sqrt is kept as a term over its argument.
calculate_portfolio_risk(bets, correlation_matrix, rd) ==
    IF bets = <<>> THEN EmptyMapping
    ELSE IF calculate_portfolio_risk_raises(bets, correlation_matrix, rd) THEN EmptyMapping
    ELSE LET total_bet_amount == sum([i \in 1 .. Len(bets) |-> BetAmount(bets[i])])
             total_expected_value ==
                 sum([i \in 1 .. Len(bets) |-> BetExpectedValue(bets[i])])
             portfolio_variance == PortfolioVariance(bets, correlation_matrix)
         IN  [total_bet_amount |-> total_bet_amount,
              total_expected_value |-> total_expected_value,
              portfolio_ev_percentage |->
                  portfolio_ev_percentage(total_expected_value, total_bet_amount, rd),
              portfolio_variance |-> portfolio_variance,
              portfolio_std_deviation |-> [sqrt |-> portfolio_variance],
              number_of_bets |-> Len(bets),
              average_bet_size |-> FDiv(total_bet_amount, FInt(Len(bets)))]

\* A portfolio has at most MaxBets bets.
MaxBets == 3

BetPool ==
    { [amount |-> FInt(100), expected_value |-> FloatOf(<<160, 11>>),
       predicted_probability |-> FloatOf(<<3, 5>>)],
      [amount |-> FInt(50), expected_value |-> FloatOf(<<-5, 2>>),
       predicted_probability |-> FloatOf(<<1, 2>>)],
      \* nothing staked on a certain outcome
      [amount |-> FInt(0), expected_value |-> FInt(0),
       predicted_probability |-> FInt(1)],
      \* nothing staked, an expected value all the same
      [amount |-> FInt(0), expected_value |-> FInt(5),
       predicted_probability |-> FInt(0)],
      \* no field at all
      EmptyMapping,
      \* no probability
      [amount |-> FInt(100), expected_value |-> FInt(5)],
      \* a probability above 1
      [amount |-> FInt(100), expected_value |-> FInt(0),
       predicted_probability |-> FloatOf(<<3, 2>>)],
      \* stakes that are no doubles, 0.1, 0.2 and -0.3: their real sum is 0
      [amount |-> FloatOf(<<1, 10>>), expected_value |-> FloatOf(<<1, 100>>)],
      [amount |-> FloatOf(<<1, 5>>), expected_value |-> FInt(0)],
      [amount |-> FloatOf(<<-3, 10>>), expected_value |-> FInt(0)],
      \* 3 at p = 0.8 and 1 at p = 1.8: the real variance is 1.44 - 1.44
      [amount |-> FInt(3), predicted_probability |-> FloatOf(<<4, 5>>)],
      [amount |-> FInt(1), predicted_probability |-> FloatOf(<<9, 5>>)],
      \* not a mapping
      NotAMapping }

BetLists == UNION {[1 .. n -> BetPool] : n \in 0 .. MaxBets}

CallPortfolioRisk ==
    /\ op = "none"
    /\ NoFeed
    /\ NoTable
    /\ UNCHANGED <<raised, odds_data, added, raw_data, df>>
    /\ \E bets \in BetLists, correlation_matrix \in {NoCorrelation, CorrelationMatrix},
          rd \in [total : Rounding, variance : Rounding] :
        /\ op' = "calculate_portfolio_risk"
        /\ args' = [bets |-> bets, correlation_matrix |-> correlation_matrix, rd |-> rd]
        /\ result' = calculate_portfolio_risk(bets, correlation_matrix, rd)

NextRisk ==
    \/ CallPortfolioRisk

SpecRisk == Init /\ [][NextRisk]_vars

\* A portfolio of mappings with probabilities in [0, 1] and no correlation
\* structure.
PlainPortfolio ==
    /\ op = "calculate_portfolio_risk"
    /\ args.bets # <<>>
    /\ args.correlation_matrix = NoCorrelation
    /\ \A i \in 1 .. Len(args.bets) :
          /\ IsMapping(args.bets[i])
          /\ RLe(RInt(0), BetProbability(args.bets[i]).v)
          /\ RLe(BetProbability(args.bets[i]).v, RInt(1))

\* C24: for a non-empty bet list without a correlation structure,
\* calculate_portfolio_risk reports total_bet_amount = sum of the stakes,
\* total_expected_value = sum of the expected values, portfolio_ev_percentage
\* = total_expected_value / total_bet_amount * 100 when total_bet_amount > 0
\* and 0 when the total stake is 0 (never a division by zero), and
\* portfolio_variance = sum of stake^2 * p * (1 - p), which is non-negative
\* for p in [0, 1].  The sums are those of the real numbers; the total that
\* is compared with 0 is the double reported, which for stakes that are no
\* doubles may be a residue above 0.0 of a real sum of 0.
C24_PortfolioTotals ==
    PlainPortfolio =>
        LET bets == args.bets
            stakes == RSum([i \in 1 .. Len(bets) |-> BetAmount(bets[i]).v])
            values == RSum([i \in 1 .. Len(bets) |-> BetExpectedValue(bets[i]).v])
            variance == RSum([i \in 1 .. Len(bets) |->
                            LET a == BetAmount(bets[i]).v
                                q == BetProbability(bets[i]).v
                            IN  RMul(RMul(RMul(a, a), q), RSub(RInt(1), q))])
            residue == stakes = RInt(0) /\ ~result.total_bet_amount.ex
        IN  /\ result # EmptyMapping
            /\ result.total_bet_amount.v = stakes
            /\ result.total_expected_value.v = values
            /\ RLt(RInt(0), stakes) =>
                  RMul(result.portfolio_ev_percentage.v, stakes) = RMul(values, RInt(100))
            /\ (stakes = RInt(0) /\ ~residue) => result.portfolio_ev_percentage = FInt(0)
            /\ (residue /\ args.rd.total <= 0) => result.portfolio_ev_percentage = FInt(0)
            /\ (residue /\ args.rd.total > 0) =>
                  result.portfolio_ev_percentage \in {FInt(0), Undetermined}
            /\ result.portfolio_variance.v = variance
            /\ RLe(RInt(0), result.portfolio_variance.v)
            /\ result.portfolio_std_deviation = [sqrt |-> result.portfolio_variance]

\* C24 witness: 100 at p = 0.6 with EV 160/11 and 50 at p = 0.5 with EV -2.5:
\* 150 staked, EV 265/22, 265/33 percent, variance 2400 + 625.
C24_Witness ==
    /\ PlainPortfolio
    /\ Len(args.bets) = 2
    /\ result.total_bet_amount.v = <<150, 1>>
    /\ result.total_expected_value.v = <<265, 22>>
    /\ result.portfolio_ev_percentage.v = <<265, 33>>
    /\ result.portfolio_variance.v = <<3025, 1>>

(***************************************************************************)
(* The components side by side (specification SpecCore): a behaviour       *)
(* puts one input together and calls an operation on it.                   *)
(***************************************************************************)
NextCore ==
    \/ AddOutcome
    \/ AddMarket
    \/ AddBookmaker
    \/ AddEntry
    \/ AddMalformedEntry
    \/ CallFindPositiveEvBets
    \/ CallArbitrage
    \/ AddEvent
    \/ AddRow
    \/ CallNormalizeGameData
    \/ CallCleanData
    \/ CallAggregateTeamStats
    \/ CallPortfolioRisk
    \/ CallAmericanToDecimal
    \/ CallDecimalToAmerican
    \/ CallImpliedProbability
    \/ CallRoundTrip
    \/ CallExpectedValue
    \/ CallEvPercentage
    \/ CallKelly

SpecCore == InitScan /\ [][NextCore]_vars

\* No game of the feed is an arbitrage opportunity.
NoArbitrage ==
    \A g \in GameIds :
        ~ /\ ~_check_arbitrage_for_game_raises(GameOdds(odds_data, g))
          /\ Cardinality(H2HNames(odds_data, g)) >= 2
          /\ BestPricesValid(odds_data, g)
          /\ TotalBelowOne(odds_data, g, args.rd)

\* C23: empty results are empty collections, never errors.
\* aggregate_team_stats returns an empty summary when no game involves the
\* team; find_positive_ev_bets and calculate_arbitrage_opportunities return
\* an empty list when no opportunity qualifies, also for an empty feed;
\* normalize_game_data returns an empty table when no event yields a record
\* (no event is well formed and names both sides); calculate_portfolio_risk
\* returns an empty result for an empty bet list.
C23_EmptyResultsAreEmpty ==
    /\ op = "aggregate_team_stats" =>
          /\ ~raised
          /\ (\A i \in 1 .. Len(df.rows) : ~AsHome(i) /\ ~AsAway(i))
                => result = EmptyMapping
    /\ FindCalled =>
          /\ ~raised
          /\ (ScanRaises(args.predictions, odds_data) \/ EligiblePaths(odds_data) = {})
                => result = <<>>
    /\ ArbitrageCalled =>
          /\ ~raised
          /\ (EntryRaises(odds_data) \/ NoArbitrage) => result = <<>>
    /\ NormalizeCalled =>
          /\ ~raised
          /\ (\A i \in 1 .. Len(raw_data) : ~Resolves(raw_data[i], args.sport))
                => result = EmptyFrame /\ df = EmptyFrame
    /\ op = "calculate_portfolio_risk" =>
          /\ ~raised
          /\ args.bets = <<>> => result = EmptyMapping

\* C23 witness: three events none of which yields a record were normalized
\* into the empty table, and the statistics of a team asked from it are
\* empty.
C23_Witness ==
    /\ op = "aggregate_team_stats"
    /\ Len(raw_data) = 3
    /\ df = EmptyFrame
    /\ result = EmptyMapping
    /\ ~raised

(***************************************************************************)
(* The date of a record (specification SpecData).  The timestamps of       *)
(* ISO 8601: a calendar date (YYYY-MM-DD), an ordinal date (YYYY-DDD) or a *)
(* week date (YYYY-Www-D), each also without its hyphens, alone or         *)
(* followed by T, a time of day (hh:mm:ss, hh:mm or hh, also without the   *)
(* colons, with an optional decimal fraction) and an optional zone (Z or   *)
(* an offset from UTC).                                                    *)
(***************************************************************************)
\* The form of a text: every ASCII digit reads as -1.
FormOf(text) ==
    [i \in 1 .. Len(text) |-> IF text[i] \in 48 .. 57 THEN -1 ELSE text[i]]

\* The number written by the n digits of a text from position i on.
NumberAt(text, i, n) ==
    LET value[k \in 0 .. n] ==
            IF k = 0 THEN 0 ELSE 10 * value[k - 1] + (text[i + k - 1] - 48)
    IN  value[n]

LeapYear(year) == (year % 4 = 0 /\ year % 100 # 0) \/ year % 400 = 0

MonthLength(year, month) ==
    IF month = 2 THEN (IF LeapYear(year) THEN 29 ELSE 28)
    ELSE IF month \in {4, 6, 9, 11} THEN 30
    ELSE 31

\* The number of a day, counted from 0001-01-01 (day 1, a Monday).
DayNumber(year, month, day) ==
    LET before[m \in 1 .. 12] ==
            IF m = 1 THEN 0 ELSE before[m - 1] + MonthLength(year, m - 1)
    IN  365 * (year - 1) + ((year - 1) \div 4) - ((year - 1) \div 100)
            + ((year - 1) \div 400) + before[month] + day

\* The calendar day with the given number, looked for in the given years;
\* <<>> when there is none.
DayNumbered(number, years) ==
    LET days == {date \in years \X (1 .. 12) \X (1 .. 31) :
                    /\ date[3] <= MonthLength(date[1], date[2])
                    /\ DayNumber(date[1], date[2], date[3]) = number}
    IN  IF days = {} THEN <<>> ELSE CHOOSE date \in days : TRUE

\* The calendar day year-month-day.
CalendarDay(year, month, day) ==
    IF year >= 1 /\ month \in 1 .. 12 /\ day >= 1 /\ day <= MonthLength(year, month)
    THEN <<year, month, day>>
    ELSE <<>>

\* Day n of a year.
OrdinalDay(year, n) ==
    IF year >= 1 /\ n >= 1 /\ n <= (IF LeapYear(year) THEN 366 ELSE 365)
    THEN DayNumbered(DayNumber(year, 1, 1) + n - 1, {year})
    ELSE <<>>

\* Day weekday (Monday is 1) of week week of a year: week 1 is the week of
\* the first Thursday of the year, and a week belongs to the year of its
\* Thursday.
WeekDay(year, week, weekday) ==
    LET first == CHOOSE t \in DayNumber(year, 1, 1) .. (DayNumber(year, 1, 1) + 6) :
                     (t - 1) % 7 = 3
        thursday == first + 7 * (week - 1)
    IN  IF /\ year >= 1
           /\ week >= 1
           /\ weekday \in 1 .. 7
           /\ thursday <= DayNumber(year, 12, 31)
        THEN DayNumbered(thursday - 4 + weekday, {year - 1, year, year + 1} \ {0})
        ELSE <<>>

\* The day a date of ISO 8601 names, <<>> for a text that is no such date.
Iso8601Date(text) ==
    LET form == FormOf(text)
        D == -1
    IN  IF form = <<D, D, D, D, 45, D, D, 45, D, D>>
        THEN CalendarDay(NumberAt(text, 1, 4), NumberAt(text, 6, 2), NumberAt(text, 9, 2))
        ELSE IF form = <<D, D, D, D, D, D, D, D>>
        THEN CalendarDay(NumberAt(text, 1, 4), NumberAt(text, 5, 2), NumberAt(text, 7, 2))
        ELSE IF form = <<D, D, D, D, 45, D, D, D>>
        THEN OrdinalDay(NumberAt(text, 1, 4), NumberAt(text, 6, 3))
        ELSE IF form = <<D, D, D, D, D, D, D>>
        THEN OrdinalDay(NumberAt(text, 1, 4), NumberAt(text, 5, 3))
        ELSE IF form = <<D, D, D, D, 45, 87, D, D, 45, D>>
        THEN WeekDay(NumberAt(text, 1, 4), NumberAt(text, 7, 2), NumberAt(text, 10, 1))
        ELSE IF form = <<D, D, D, D, 87, D, D, D>>
        THEN WeekDay(NumberAt(text, 1, 4), NumberAt(text, 6, 2), NumberAt(text, 8, 1))
        ELSE <<>>

\* The pairs of digits of a text of digits and colons are an hour below 24
\* followed by minutes and seconds below 60.
IsClock(text) ==
    LET places == {i \in 1 .. Len(text) : text[i] # 58}
        digits == [k \in 1 .. Cardinality(places) |-> text[KthOf(places, k)]]
        D == -1
    IN  /\ FormOf(text) \in {<<D, D>>, <<D, D, 58, D, D>>, <<D, D, 58, D, D, 58, D, D>>,
                             <<D, D, D, D>>, <<D, D, D, D, D, D>>}
        /\ NumberAt(digits, 1, 2) <= 23
        /\ \A k \in 2 .. (Len(digits) \div 2) : NumberAt(digits, 2 * k - 1, 2) <= 59

\* A time of day of ISO 8601 with an optional zone: a clock, an optional
\* fraction (a point or a comma and digits), and nothing, Z, or a sign and a
\* clock of hours and minutes.
IsIso8601Time(text) ==
    \E i, j \in 0 .. Len(text) :
        /\ i <= j
        /\ IsClock(SubSeq(text, 1, i))
        /\ \/ i = j
           \/ /\ j >= i + 2
              /\ text[i + 1] \in {44, 46}
              /\ \A k \in (i + 2) .. j : text[k] \in 48 .. 57
        /\ \/ j = Len(text)
           \/ j + 1 = Len(text) /\ text[j + 1] = 90
           \/ /\ j < Len(text)
              /\ text[j + 1] \in {43, 45}
              /\ Len(text) - j \in {3, 5, 6}
              /\ IsClock(SubSeq(text, j + 2, Len(text)))

\* The calendar day of a timestamp of ISO 8601, as written; <<>> for a text
\* that is no such timestamp.
Iso8601Day(text) ==
    LET separators == {i \in 1 .. Len(text) : text[i] = 84}
        t == IF separators = {} THEN Len(text) + 1
             ELSE CHOOSE i \in separators : \A j \in separators : i <= j
    IN  IF separators = {} \/ IsIso8601Time(SubSeq(text, t + 1, Len(text)))
        THEN Iso8601Date(SubSeq(text, 1, t - 1))
        ELSE <<>>

\* The text YYYY-MM-DD of a day.
DayText(date) ==
    LET digits(number, width) ==
            [i \in 1 .. width |-> 48 + ((number \div PowerOfTen(width - i)) % 10)]
    IN  digits(date[1], 4) \o <<45>> \o digits(date[2], 2) \o <<45>> \o digits(date[3], 2)

\* The day the date field of a raw event names: that of its timestamp, <<>>
\* when the field is absent, no text, or no timestamp of ISO 8601.
TimestampDay(game) ==
    IF "date" \in DOMAIN game /\ "str" \in DOMAIN game.date
    THEN Iso8601Day(game.date.str)
    ELSE <<>>

\* C25: a raw event whose date is absent or is not an ISO-8601 timestamp is
\* not rejected for that reason: if both teams resolve it yields a record,
\* dated with the day of processing; an event with a parseable timestamp
\* yields a record dated with the calendar day of that timestamp.  The code
\* does not have this property for the timestamps of ISO 8601 that
\* datetime.fromisoformat does not read, nor for the years before 1000.
C25_DateFallback ==
    NormalizeCalled =>
        /\ Len(df.rows) = Cardinality(Resolving)
        /\ \A k \in 1 .. Len(df.rows) :
              LET i == KthOf(Resolving, k)
              IN  /\ df.rows[k].game_id = Get(raw_data[i], "id", "")
                  /\ df.rows[k].date =
                        [str |-> DayText(IF TimestampDay(raw_data[i]) = <<>>
                                         THEN args.now[i]
                                         ELSE TimestampDay(raw_data[i]))]

\* C25, the failing case reached: the event dated "2024-005T19:00:00Z", day
\* 5 of 2024, yields a record dated with the day of processing.
C25_OrdinalDateDatedToday ==
    /\ NormalizeCalled
    /\ Len(raw_data) = 1
    /\ "date" \in DOMAIN raw_data[1]
    /\ raw_data[1].date = [str |-> <<50, 48, 50, 52, 45, 48, 48, 53, 84,
                                     49, 57, 58, 48, 48, 58, 48, 48, 90>>]
    /\ TimestampDay(raw_data[1]) = <<2024, 1, 5>>
    /\ Len(df.rows) = 1
    /\ df.rows[1].date = [str |-> DayText(args.now[1])]
    /\ args.now[1] \in ProcessingDays

(***************************************************************************)
(* Break-even of the EV engine (specification Spec).  A float             *)
(* [v |-> 0, ex |-> FALSE] is a double whose real value is 0 and which     *)
(* carries the rounding residue of its computation: it need not be 0.0.    *)
(***************************************************************************)
\* The probability at which the odds break even: 1 / american_to_decimal(a).
BreakEven(a) == implied_probability(a).v

\* A call of calculate_expected_value with odds # 0 and a positive stake.
StakedEvCall ==
    /\ op = "calculate_expected_value"
    /\ args.odds # 0
    /\ args.amount > 0

\* C26 as stated: the expected value is zero exactly when p equals the
\* implied probability of the odds, strictly negative below it and strictly
\* positive above it.
C26_ZeroExactlyAtImplied ==
    StakedEvCall =>
        /\ args.p = BreakEven(args.odds) <=> (result.v = RInt(0) /\ result.ex)
        /\ RLt(args.p, BreakEven(args.odds)) => RLt(result.v, RInt(0))
        /\ RLt(BreakEven(args.odds), args.p) => RLt(RInt(0), result.v)

\* C26, amended: for odds a # 0 and a stake > 0 the expected value is
\* strictly negative when p is below the implied probability of a and
\* strictly positive when p is above it; at p equal to it the value is zero
\* up to rounding (its real value is 0; the double is 0.0 when the arithmetic
\* is exact).  A fair coin against odds whose implied probability exceeds 0.5
\* has a negative expected value.
C26_SignFollowsImplied ==
    StakedEvCall =>
        /\ args.p = BreakEven(args.odds) <=> result.v = RInt(0)
        /\ RLt(args.p, BreakEven(args.odds)) <=> RLt(result.v, RInt(0))
        /\ RLt(BreakEven(args.odds), args.p) <=> RLt(RInt(0), result.v)
        /\ (args.p = <<1, 2>> /\ RLt(<<1, 2>>, BreakEven(args.odds)))
              => RLt(result.v, RInt(0))
        /\ (args.p = <<1, 2>> /\ args.odds \in {-100, 100})
              => result = FInt(0)

\* C26 witness: p = 2/3 at -200 with 100 staked: the real value is 0, the
\* double carries a residue.
C26_Witness ==
    /\ StakedEvCall
    /\ args.p = <<2, 3>>
    /\ args.odds = -200
    /\ args.amount = 100
    /\ args.p = BreakEven(args.odds)
    /\ result.v = RInt(0)
    /\ ~result.ex

\* A call of calculate_kelly_criterion with odds # 0 and a bankroll > 0,
\* and the expected value of the same bet for a stake of 100.
SizedKellyCall ==
    /\ op = "calculate_kelly_criterion"
    /\ args.odds # 0
    /\ args.amount > 0

EvOfKellyCall == calculate_expected_value(FloatOf(args.p), args.odds, FInt(100))

\* C27 as stated: the Kelly stake is strictly positive if and only if the
\* expected value is strictly positive, and exactly 0 whenever the expected
\* value is zero or negative.
C27_KellyZeroUnlessEvPositive ==
    SizedKellyCall =>
        /\ RLt(RInt(0), result.v) <=> RLt(RInt(0), EvOfKellyCall.v)
        /\ RLe(EvOfKellyCall.v, RInt(0)) => result = FInt(0)

\* C27, amended: for p in [0, 1], odds a # 0 and a bankroll > 0 the Kelly
\* stake is strictly positive if and only if the expected value is strictly
\* positive, and exactly 0 whenever the expected value is strictly negative;
\* at break-even both are zero up to rounding, and the Kelly stake is never
\* negative.
C27_KellyAgreesWithEv ==
    SizedKellyCall =>
        /\ RLt(RInt(0), result.v) <=> RLt(RInt(0), EvOfKellyCall.v)
        /\ RLt(EvOfKellyCall.v, RInt(0)) => result = FInt(0)
        /\ EvOfKellyCall.v = RInt(0) <=> args.p = BreakEven(args.odds)
        /\ EvOfKellyCall.v = RInt(0) => result.v = RInt(0)
        /\ RLe(RInt(0), result.v)

\* C27 witness: p = 2/5 at +150: the bet breaks even, and the stake
\* bankroll * max(0, (1.5 * 0.4 - 0.6) / 1.5) carries the residue of
\* 1.5 * 0.4 - 0.6.
C27_Witness ==
    /\ SizedKellyCall
    /\ args.p = <<2, 5>>
    /\ args.odds = 150
    /\ args.amount = 100
    /\ EvOfKellyCall.v = RInt(0)
    /\ result.v = RInt(0)
    /\ ~result.ex

(***************************************************************************)
(* Order of the odds (specification SpecCore).                             *)
(***************************************************************************)
\* The valid American odds: at least 100 in magnitude.
ValidOdds == {a \in OddsValues : a >= 100 \/ a <= -100}

\* The head-to-head prices quoted for name n in game g.
PricesOf(g, n) ==
    {PathPrice(odds_data, p) :
        p \in {q \in H2HPaths(odds_data, g) : PathName(odds_data, q) = n}}

\* C28: over valid American odds (|a| >= 100) american_to_decimal is
\* monotonically non-decreasing in a, and implied_probability is
\* monotonically non-increasing and strictly between 0 and 1; so the maximum
\* American price the arbitrage scan selects for an outcome is a quote with
\* the smallest implied probability among those offered.
C28_HighestPriceIsBestPayout ==
    /\ (op = "american_to_decimal" /\ args.odds \in ValidOdds) =>
          \A b \in ValidOdds :
              /\ b <= args.odds => RLe(american_to_decimal(b).v, result.v)
              /\ b >= args.odds => RLe(result.v, american_to_decimal(b).v)
    /\ (op = "implied_probability" /\ args.odds \in ValidOdds) =>
          /\ RLt(RInt(0), result.v)
          /\ RLt(result.v, RInt(1))
          /\ \A b \in ValidOdds :
                /\ b <= args.odds => RLe(result.v, implied_probability(b).v)
                /\ b >= args.odds => RLe(implied_probability(b).v, result.v)
    /\ ArbitrageCalled =>
          \A i \in 1 .. Len(result) :
              \A k \in 1 .. Len(result[i].best_odds) :
                  LET quotes == PricesOf(result[i].game_id, result[i].best_odds[k][1])
                      best == result[i].best_odds[k][2][2]
                  IN  quotes \subseteq ValidOdds =>
                          /\ best \in quotes
                          /\ \A a \in quotes :
                                RLe(implied_probability(best).v, implied_probability(a).v)

\* C28 witness: an opportunity whose best price +150 for a name was chosen
\* among the valid quotes +150 and +140 (implied 0.40 against 0.4167).
C28_Witness ==
    /\ ArbitrageCalled
    /\ \E i \in 1 .. Len(result) :
          \E k \in 1 .. Len(result[i].best_odds) :
              /\ result[i].best_odds[k][2][2] = 150
              /\ {140, 150} \subseteq PricesOf(result[i].game_id, result[i].best_odds[k][1])
              /\ PricesOf(result[i].game_id, result[i].best_odds[k][1]) \subseteq ValidOdds
              /\ implied_probability(150).v = <<2, 5>>
              /\ implied_probability(140).v = <<5, 12>>

(***************************************************************************)
(* Counts of a team summary (specification SpecData).                      *)
(***************************************************************************)
\* C29: in every non-empty summary of aggregate_team_stats each matching
\* game is counted exactly once as a home game or an away game and at most
\* once as a win or a loss: home_games + away_games = total_games,
\* wins + losses <= total_games and 0 <= win_percentage <= 1, for any table,
\* a record whose home_team and away_team are the same team included.
C29_EachGameCountedOnce ==
    AggregateCalled =>
        /\ result.home_games + result.away_games = result.total_games
        /\ result.wins + result.losses <= result.total_games
        /\ RLe(RInt(0), result.win_percentage.v)
        /\ RLe(result.win_percentage.v, RInt(1))

(***************************************************************************)
(* Cleaning twice (specification SpecData).                                *)
(***************************************************************************)
\* C30: clean_data is idempotent: applied to its own output it returns the
\* same records in the same order, clean(clean(x)) = clean(x), for every
\* table of game records.  The code does not have this property: a date
\* that pandas reads as NaT passes the first call and is dropped by the
\* second.
C30_CleanIsIdempotent ==
    CleanCalled => clean_data(result, args.pd) = result

\* C30, the failing case reached: a table with one record whose date is the
\* empty string is cleaned; the record comes back without a date, and
\* cleaning the result returns no record.
C30_MissingDateAfterCleaning ==
    /\ CleanCalled
    /\ Len(args.df.rows) = 1
    /\ "date" \in DOMAIN args.df.rows[1]
    /\ args.df.rows[1].date = [str |-> <<>>]
    /\ Len(result.rows) = 1
    /\ "date" \notin DOMAIN result.rows[1]
    /\ clean_data(result, args.pd).rows = <<>>

====
